---- MODULE Spec2Model ----
(***************************************************************************)
(* Model of the calendar extraction server (src/server.js).                *)
(*                                                                         *)
(* Instants are JavaScript Date time values, kept here in whole seconds    *)
(* counted from 1970-01-01T00:00:00Z.  The local-time accessors of Date    *)
(* (getFullYear, getHours, setFullYear, setHours, ...) are modelled for a  *)
(* host whose local time zone is UTC, which is what the deployment guide's *)
(* hosting platform provides and what the prompts assume ("10:00am" is     *)
(* written "T10:00:00.000Z").                                              *)
(***************************************************************************)
EXTENDS Integers, Sequences, FiniteSets, TLC

(***************************************************************************)
(* Date arithmetic: the ECMAScript Date abstract operations the code uses. *)
(***************************************************************************)

SecPerMin == 1 * 60

SecPerHour == 60 * 60

SecPerDay == 24 * 60 * 60

IsLeapYear(y) == (y % 4 = 0 /\ y % 100 # 0) \/ y % 400 = 0

DaysInYear(y) == IF IsLeapYear(y) THEN 366 ELSE 365

\* DayFromYear: days from the epoch to 1 January of year y (y >= 1970).
DaysBeforeYear(y) ==
    LET n == y - 1970
    IN  365 * n + ((n + 1) \div 4) - ((n + 69) \div 100) + ((n + 369) \div 400)

CumulativeDays == <<0, 31, 59, 90, 120, 151, 181, 212, 243, 273, 304, 334, 365>>

\* Days from 1 January of year y to the first day of month mo (1..13).
DaysBeforeMonth(y, mo) ==
    CumulativeDays[mo] + (IF mo > 2 /\ IsLeapYear(y) THEN 1 ELSE 0)

\* MakeDay: day number of (y, mo, d); d may run past the end of the month,
\* in which case the date rolls over into the following month(s).
MakeDay(y, mo, d) == DaysBeforeYear(y) + DaysBeforeMonth(y, mo) + (d - 1)

\* MakeDate(MakeDay, MakeTime): h, mi and s may exceed their usual range.
MakeDate(y, mo, d, h, mi, s) ==
    MakeDay(y, mo, d) * SecPerDay + h * SecPerHour + mi * SecPerMin + s

Day(t) == t \div SecPerDay

TimeWithinDay(t) == t % SecPerDay

\* The year holding instant t (instants up to 2037, where 32-bit seconds end):
\* a year has at most 366 days, which places it within one year of the quotient.
YearFromTime(t) ==
    LET y0 == 1970 + Day(t) \div 366
    IN  CHOOSE y \in y0 .. (y0 + 1) :
            DaysBeforeYear(y) <= Day(t) /\ Day(t) < DaysBeforeYear(y + 1)

DayWithinYear(t) == Day(t) - DaysBeforeYear(YearFromTime(t))

MonthFromTime(t) ==
    LET y == YearFromTime(t)
    IN  CHOOSE mo \in 1 .. 12 :
            DaysBeforeMonth(y, mo) <= DayWithinYear(t)
            /\ DayWithinYear(t) < DaysBeforeMonth(y, mo + 1)

DateFromTime(t) ==
    DayWithinYear(t) - DaysBeforeMonth(YearFromTime(t), MonthFromTime(t)) + 1

HourFromTime(t) == TimeWithinDay(t) \div SecPerHour

MinFromTime(t) == (TimeWithinDay(t) % SecPerHour) \div SecPerMin

SecFromTime(t) == t % SecPerMin

\* 1970-01-01 was a Thursday; 0 is Sunday as in Date.prototype.getDay.
WeekDay(t) == (Day(t) + 4) % 7

\* Date.prototype.setFullYear(y): month, day of month and time of day are
\* kept and the date is rebuilt with MakeDay, so 29 February rolls over to
\* 1 March when year y has no such day.
SetFullYear(t, y) ==
    MakeDay(y, MonthFromTime(t), DateFromTime(t)) * SecPerDay + TimeWithinDay(t)

\* Date.prototype.setHours(h, mi, 0, 0): same day, new time of day (h and mi
\* are not range-checked; the excess carries into the following hours/days).
SetHours(t, h, mi) == Day(t) * SecPerDay + h * SecPerHour + mi * SecPerMin


(***************************************************************************)
(* Date strings, as they appear in the JSON the inference service returns  *)
(* and in the event record.                                                *)
(*   absent   undefined, null or "": a falsy value                         *)
(*   garbage  a string Date cannot parse ("Not specified")                 *)
(*   raw      a parseable string that is not in toISOString's form         *)
(*            ("2025-08-06T15:00:00Z", "2025-08-06T11:00:00-04:00")        *)
(*   iso      the form toISOString produces ("2025-08-06T15:00:00.000Z")   *)
(***************************************************************************)
NoDate == [kind |-> "absent", t |-> 0]

BadDate == [kind |-> "garbage", t |-> 0]

RawDate(t) == [kind |-> "raw", t |-> t]

IsoDate(t) == [kind |-> "iso", t |-> t]

\* JavaScript truthiness of a date field.
Truthy(s) == s.kind # "absent"

\* new Date(s): a Date object, whose time value is NaN when s does not parse.
\* (new Date(undefined) and new Date("") are both Invalid Date.)
NewDate(s) ==
    IF s.kind \in {"raw", "iso"} THEN [nan |-> FALSE, t |-> s.t]
                                 ELSE [nan |-> TRUE, t |-> 0]

\* Date.prototype.toISOString of a valid Date.
ToISOString(d) == IsoDate(d.t)

(***************************************************************************)
(* LocationEnhancer.  Names and table keys are sequences of characters, so *)
(* that toLowerCase and includes are computed character by character.      *)
(***************************************************************************)
UpperCase ==
    <<"A", "B", "C", "D", "E", "F", "G", "H", "I", "J", "K", "L", "M",
      "N", "O", "P", "Q", "R", "S", "T", "U", "V", "W", "X", "Y", "Z">>

LowerCase ==
    <<"a", "b", "c", "d", "e", "f", "g", "h", "i", "j", "k", "l", "m",
      "n", "o", "p", "q", "r", "s", "t", "u", "v", "w", "x", "y", "z">>

\* String.prototype.toLowerCase
ToLowerCase(s) ==
    [i \in 1 .. Len(s) |->
        IF \E k \in 1 .. Len(UpperCase) : UpperCase[k] = s[i]
        THEN LowerCase[CHOOSE k \in 1 .. Len(UpperCase) : UpperCase[k] = s[i]]
        ELSE s[i]]

\* String.prototype.includes
Includes(s, sub) ==
    \E i \in 0 .. (Len(s) - Len(sub)) : SubSeq(s, i + 1, i + Len(sub)) = sub

KnownLocation(key, name, address, city, isWellKnownPlace) ==
    [key |-> key,
     data |-> [name |-> name, address |-> address, city |-> city, state |-> "ON",
               country |-> "Canada", isWellKnownPlace |-> isWellKnownPlace]]

\* The table the constructor builds, in the order of its keys.
ConstructedLocations ==
    <<      KnownLocation(
        <<"c", "n", " ", "t", "o", "w", "e", "r">>,
        <<"C", "N", " ", "T", "o", "w", "e", "r">>,
        "290 Bremner Blvd, Toronto, ON M5V 3L9", "Toronto", TRUE),
      KnownLocation(
        <<"r", "o", "g", "e", "r", "s", " ", "c", "e", "n", "t", "r", "e">>,
        <<"R", "o", "g", "e", "r", "s", " ", "C", "e", "n", "t", "r", "e">>,
        "1 Blue Jays Way, Toronto, ON M5V 1J1", "Toronto", TRUE),
      KnownLocation(
        <<"u", "n", "i", "o", "n", " ", "s", "t", "a", "t", "i", "o", "n">>,
        <<"U", "n", "i", "o", "n", " ", "S", "t", "a", "t", "i", "o", "n", " ", "T", "o", "r", "o", "n", "t", "o">>,
        "65 Front St W, Toronto, ON M5J 1E6", "Toronto", TRUE),
      KnownLocation(
        <<"e", "a", "t", "o", "n", " ", "c", "e", "n", "t", "r", "e">>,
        <<"C", "F", " ", "T", "o", "r", "o", "n", "t", "o", " ", "E", "a", "t", "o", "n", " ", "C", "e", "n", "t", "r", "e">>,
        "220 Yonge St, Toronto, ON M5B 2H1", "Toronto", TRUE),
      KnownLocation(
        <<"p", "e", "a", "r", "s", "o", "n", " ", "a", "i", "r", "p", "o", "r", "t">>,
        <<"T", "o", "r", "o", "n", "t", "o", " ", "P", "e", "a", "r", "s", "o", "n", " ", "I", "n", "t", "e", "r", "n", "a", "t", "i", "o", "n", "a", "l", " ", "A", "i", "r", "p", "o", "r", "t">>,
        "6301 Silver Dart Dr, Mississauga, ON L5P 1B2", "Mississauga", TRUE),
      KnownLocation(
        <<"c", "a", "s", "a", " ", "l", "o", "m", "a">>,
        <<"C", "a", "s", "a", " ", "L", "o", "m", "a">>,
        "1 Austin Terrace, Toronto, ON M5R 1X8", "Toronto", TRUE),
      KnownLocation(
        <<"h", "a", "r", "b", "o", "u", "r", "f", "r", "o", "n", "t", " ", "c", "e", "n", "t", "r", "e">>,
        <<"H", "a", "r", "b", "o", "u", "r", "f", "r", "o", "n", "t", " ", "C", "e", "n", "t", "r", "e">>,
        "235 Queens Quay W, Toronto, ON M5J 2G8", "Toronto", TRUE),
      KnownLocation(
        <<"j", "a", "c", "k", " ", "a", "s", "t", "o", "r", "s">>,
        <<"J", "a", "c", "k", " ", "A", "s", "t", "o", "r", "'", "s", " ", "B", "a", "r", " ", "a", "n", "d", " ", "G", "r", "i", "l", "l">>,
        "Multiple locations in Toronto area", "Toronto", FALSE),
      KnownLocation(
        <<"t", "h", "e", " ", "k", "e", "g">>,
        <<"T", "h", "e", " ", "K", "e", "g", " ", "S", "t", "e", "a", "k", "h", "o", "u", "s", "e", " ", "+", " ", "B", "a", "r">>,
        "Multiple locations in Toronto area", "Toronto", FALSE),
      KnownLocation(
        <<"s", "w", "i", "s", "s", " ", "c", "h", "a", "l", "e", "t">>,
        <<"S", "w", "i", "s", "s", " ", "C", "h", "a", "l", "e", "t">>,
        "Multiple locations in Toronto area", "Toronto", FALSE)>>

VARIABLE knownLocations     \* this.knownLocations of the one LocationEnhancer

\* null, for locationDetails.
NoLocationDetails == [none |-> TRUE]

\* { ...target, ...source }: the source's fields replace the target's.
Spread(target, source) ==
    [f \in DOMAIN target \cup DOMAIN source |->
        IF f \in DOMAIN source THEN source[f] ELSE target[f]]

\* The indices of the table entries a lowercased name matches partially.
PartialMatches(locationKey) ==
    {i \in 1 .. Len(knownLocations) :
        \/ Includes(locationKey, knownLocations[i].key)
        \/ Includes(knownLocations[i].key, locationKey)}

\* Mutant of EnhanceLocation: the last partial match is used.
EnhanceLocationLastMatch(locationDetails) ==
    IF locationDetails = NoLocationDetails \/ locationDetails.name = <<>>
    THEN locationDetails
    ELSE LET locationKey == ToLowerCase(locationDetails.name)
             exact == {i \in 1 .. Len(knownLocations) :
                          knownLocations[i].key = locationKey}
             partial == PartialMatches(locationKey)
         IN  IF exact # {}
             THEN Spread(locationDetails, knownLocations[CHOOSE i \in exact : TRUE].data)
             ELSE IF partial # {}
             THEN LET last == CHOOSE i \in partial : \A j \in partial : i >= j
                  IN  [Spread(locationDetails, knownLocations[last].data)
                          EXCEPT !.name = locationDetails.name]
             ELSE locationDetails

\* enhanceLocation(locationDetails)
EnhanceLocation(locationDetails) ==
    IF locationDetails = NoLocationDetails \/ locationDetails.name = <<>>
    THEN locationDetails
    ELSE LET locationKey == ToLowerCase(locationDetails.name)
             exact == {i \in 1 .. Len(knownLocations) :
                          knownLocations[i].key = locationKey}
             partial == PartialMatches(locationKey)
         IN  IF exact # {}
             THEN Spread(locationDetails, knownLocations[CHOOSE i \in exact : TRUE].data)
             ELSE IF partial # {}
             THEN LET first == CHOOSE i \in partial : \A j \in partial : i <= j
                  IN  [Spread(locationDetails, knownLocations[first].data)
                          EXCEPT !.name = locationDetails.name]
             ELSE locationDetails

(***************************************************************************)
(* CalendarService.validateAndNormalizeSingleEvent                         *)
(***************************************************************************)
MissingDateMessage == "Missing required date information"

InvalidFormatMessage == "Date validation failed: Invalid date format received from AI"

OrderingMessage == "Date validation failed: End date must be after start date"

Threw(msg) == [ok |-> FALSE, error |-> msg, value |-> [startDate |-> NoDate, endDate |-> NoDate]]

Returned(ev) == [ok |-> TRUE, error |-> "", value |-> ev]

\* Mutant of EndNotAfterStart: `<` written for `<=`.
EndBeforeStart(startDate, endDate) == endDate.t < startDate.t

\* The comparison `endDate <= startDate` of two valid Date objects.
EndNotAfterStart(startDate, endDate) == endDate.t <= startDate.t

\* if (eventData.locationDetails) { eventData.locationDetails =
\*   this.locationEnhancer.enhanceLocation(eventData.locationDetails) }
\* (a record the inference returned without the field has none to enhance).
WithEnhancedLocation(eventData) ==
    IF "locationDetails" \in DOMAIN eventData
    THEN [eventData EXCEPT !.locationDetails = EnhanceLocation(@)]
    ELSE eventData

\* Mutant of ValidateAndNormalizeSingleEvent: the presence check is left out,
\* so a missing date is reported as an invalid date format.
ValidateWithoutPresenceCheck(eventData) ==
    LET startDate == NewDate(eventData.startDate)
        endDate   == NewDate(eventData.endDate)
    IN  IF startDate.nan \/ endDate.nan
        THEN Threw(InvalidFormatMessage)
        ELSE IF endDate.t <= startDate.t
        THEN Threw(OrderingMessage)
        ELSE Returned([WithEnhancedLocation(eventData) EXCEPT
                         !.startDate = ToISOString(startDate),
                         !.endDate = ToISOString(endDate)])

ValidateAndNormalizeSingleEvent(eventData) ==
    IF ~Truthy(eventData.startDate) \/ ~Truthy(eventData.endDate)
    THEN Threw(MissingDateMessage)
    ELSE LET startDate == NewDate(eventData.startDate)
             endDate   == NewDate(eventData.endDate)
         IN  IF startDate.nan \/ endDate.nan
             THEN Threw(InvalidFormatMessage)
             ELSE IF EndNotAfterStart(startDate, endDate)
             THEN Threw(OrderingMessage)
             ELSE Returned([WithEnhancedLocation(eventData) EXCEPT
                              !.startDate = ToISOString(startDate),
                              !.endDate = ToISOString(endDate)])

(***************************************************************************)
(* The request and the inference service's answer.                         *)
(***************************************************************************)

\* Sample instants: 2025-08-06T15:00:00Z and one hour later.
SampleStart == MakeDate(2025, 8, 6, 15, 0, 0)

SampleEnd == MakeDate(2025, 8, 6, 16, 0, 0)

\* The client's clock in the samples: 2025-08-05T12:00:00Z.
SampleNow == MakeDate(2025, 8, 5, 12, 0, 0)

\* Longest events array the inference service returns in the model.
MaxEvents == 2

DateSamples == {NoDate, BadDate, RawDate(SampleStart), IsoDate(SampleEnd)}

\* Event objects of the CalendarService response format.
ServiceEvents == [startDate : DateSamples, endDate : DateSamples]

SeqsUpTo(S, n) == UNION {[1 .. k -> S] : k \in 0 .. n}

NoResult ==
    [kind |-> "none", status |-> 0, code |-> "", etype |-> "",
     hasEvent |-> FALSE, shape |-> "none", events |-> <<>>]

\* openai.chat.completions.create rejects: an APIError with an HTTP status,
\* an error code and an error type.
APIError(status, code, etype) ==
    [NoResult EXCEPT !.kind = "error", !.status = status, !.code = code,
                     !.etype = etype]

InferenceErrors ==
    {APIError(429, "rate_limit_exceeded", "requests"),
     APIError(429, "insufficient_quota", "insufficient_quota"),
     APIError(400, "context_length_exceeded", "invalid_request_error"),
     APIError(500, "", "server_error")}

\* The completion's text is not JSON.
UnparseableText == [NoResult EXCEPT !.kind = "text"]

\* {"hasEvent": false}
NoEventJson == [NoResult EXCEPT !.kind = "json"]

\* The same JSON text wrapped in a markdown code fence.
Fenced(res) == [res EXCEPT !.kind = "fenced"]

\* {"hasEvent": true, "startDate": ..., "endDate": ...}: the legacy flat shape.
FlatJson(e) ==
    [NoResult EXCEPT !.kind = "json", !.hasEvent = TRUE, !.shape = "flat",
                     !.events = <<e>>]

\* {"hasEvent": true, "events": [...]}
ArrayJson(es) ==
    [NoResult EXCEPT !.kind = "json", !.hasEvent = TRUE, !.shape = "array",
                     !.events = es]

\* {"hasEvent": false, "events": [{"startDate": null, "endDate": null}]}
NoEventWithEvents ==
    [NoEventJson EXCEPT !.shape = "array",
                        !.events = <<[startDate |-> NoDate, endDate |-> NoDate]>>]

ServiceResults ==
    InferenceErrors
    \cup {UnparseableText, NoEventJson, Fenced(NoEventJson), NoEventWithEvents}
    \cup {FlatJson(e) : e \in ServiceEvents}
    \cup {ArrayJson(es) : es \in SeqsUpTo(ServiceEvents, MaxEvents)}

\* req.body.userCurrentTime: absent, well formed ({iso, local, timezone}), or
\* an object whose iso/local fields are not what the prompt builder needs.
NoClientTime == [kind |-> "none", now |-> 0]

ClientTimes ==
    {NoClientTime, [kind |-> "ok", now |-> SampleNow],
     [kind |-> "ok", now |-> MakeDate(2025, 8, 6, 9, 0, 0)],
     [kind |-> "bad", now |-> 0]}

\* req.body.userTimezone: absent (the parameter defaults to 'UTC'), a valid
\* IANA zone name, or any other string.
Timezones == {"default", "valid", "invalid"}

(***************************************************************************)
(* CalendarService.validateRelativeDates                                   *)
(***************************************************************************)

\* new Date(d.toDateString()): the date at local midnight, NaN for NaN.
DateOnly(d) ==
    IF d.nan THEN d ELSE [nan |-> FALSE, t |-> Day(d.t) * SecPerDay]

\* a.getTime() !== b.getTime(); NaN differs from everything, itself included.
TimesDiffer(a, b) == a.nan \/ b.nan \/ a.t # b.t

TomorrowWarning == "You mentioned \"tomorrow\" but the extracted date is ..."

TodayWarning == "You mentioned \"today\" but the extracted date doesn't match today's date."

\* startDateField is eventData.startDate of the object passed in.
ValidateRelativeDates(content, startDateField, userCurrentTime) ==
    LET userNow    == [nan |-> FALSE, t |-> userCurrentTime.now]
        eventStart == NewDate(startDateField)
        expectedTomorrow == [nan |-> FALSE, t |-> userNow.t + SecPerDay]
        tomorrow ==
            IF content.tomorrow
               /\ TimesDiffer(DateOnly(eventStart), DateOnly(expectedTomorrow))
            THEN <<TomorrowWarning>> ELSE <<>>
        today ==
            IF content.today
               /\ TimesDiffer(DateOnly(eventStart), DateOnly(userNow))
            THEN <<TodayWarning>> ELSE <<>>
    IN  tomorrow \o today

(***************************************************************************)
(* CalendarService.parseContentWithAI, from the awaited completion on.     *)
(***************************************************************************)
\* Mutant of MapValidate: an element that fails validation is dropped and the
\* rest of the batch is kept.
MapValidateKeepingValid(events) ==
    LET valid == SelectSeq(events,
                           LAMBDA e : ValidateAndNormalizeSingleEvent(e).ok)
    IN  [ok |-> TRUE, error |-> "",
         value |-> [i \in 1 .. Len(valid) |->
                       ValidateAndNormalizeSingleEvent(valid[i]).value]]

RECURSIVE MapValidate(_)
\* parsedData.events.map(event => this.validateAndNormalizeSingleEvent(event)):
\* the first element that throws ends the map.
MapValidate(events) ==
    IF events = <<>> THEN [ok |-> TRUE, error |-> "", value |-> <<>>]
    ELSE LET first == ValidateAndNormalizeSingleEvent(Head(events))
         IN  IF ~first.ok
             THEN [ok |-> FALSE, error |-> first.error, value |-> <<>>]
             ELSE LET rest == MapValidate(Tail(events))
                  IN  IF ~rest.ok THEN rest
                      ELSE [ok |-> TRUE, error |-> "",
                            value |-> <<first.value>> \o rest.value]

NoData == [hasEvent |-> FALSE, events |-> <<>>, warnings |-> <<>>]

AIParsingFailed == "AI parsing failed."

ConstAssignment == "TypeError: Assignment to constant variable."

\* The catch clause: the caught error is logged, a new Error is thrown.
ParseFailed(caught) ==
    [ok |-> FALSE, error |-> AIParsingFailed, caught |-> caught, value |-> NoData]

ParseReturned(data) == [ok |-> TRUE, error |-> "", caught |-> "", value |-> data]

\* `parsedData = { hasEvent: true, events: [singleEvent] }`: parsedData is
\* declared with const, so the assignment throws a TypeError.
WrapSingleEvent(singleEvent) == ParseFailed(ConstAssignment)

\* The `if (userCurrentTime)` block: parsedData.warnings is set when the
\* relative-date check returns any warning.  The batch object itself is
\* passed as eventData, and it has no startDate field.
WithRelativeDateWarnings(content, data, userCurrentTime) ==
    IF userCurrentTime.kind = "none" THEN data
    ELSE [data EXCEPT
            !.warnings = ValidateRelativeDates(content, NoDate, userCurrentTime)]

\* Mutant of ParseContentWithAI: the events are validated before hasEvent is
\* looked at.
ParseContentValidatingFirst(content, userCurrentTime, res) ==
    IF res.kind = "error" THEN ParseFailed("APIError")
    ELSE IF res.kind \in {"text", "fenced"} THEN ParseFailed("SyntaxError")
    ELSE LET mapped == MapValidate(res.events)
         IN  IF ~mapped.ok THEN ParseFailed(mapped.error)
             ELSE ParseReturned(
                    WithRelativeDateWarnings(content,
                        [hasEvent |-> res.hasEvent, events |-> mapped.value,
                         warnings |-> <<>>],
                        userCurrentTime))

ParseContentWithAI(content, userCurrentTime, res) ==
    IF res.kind = "error" THEN ParseFailed("APIError")
    ELSE IF res.kind \in {"text", "fenced"} THEN ParseFailed("SyntaxError")
    ELSE IF ~res.hasEvent
    THEN ParseReturned([hasEvent |-> FALSE, events |-> res.events,
                        warnings |-> <<>>])
    ELSE IF res.shape = "array"
    THEN LET mapped == MapValidate(res.events)
         IN  IF ~mapped.ok THEN ParseFailed(mapped.error)
             ELSE ParseReturned(
                    WithRelativeDateWarnings(content,
                        [hasEvent |-> TRUE, events |-> mapped.value,
                         warnings |-> <<>>],
                        userCurrentTime))
    ELSE LET single == ValidateAndNormalizeSingleEvent(res.events[1])
         IN  IF ~single.ok THEN ParseFailed(single.error)
             ELSE WrapSingleEvent(single.value)


(***************************************************************************)
(* CalendarService.generateIcsContent: one VEVENT block per batch element. *)
(***************************************************************************)
NoIcs == [present |-> FALSE, vevents |-> <<>>]

\* formatDate: new Date(dateStr).toISOString() stripped to YYYYMMDDTHHMMSSZ.
FormatDate(dateStr) == [kind |-> "basic", t |-> NewDate(dateStr).t]

GenerateIcsContent(eventData) ==
    [present |-> TRUE,
     vevents |-> [i \in 1 .. Len(eventData.events) |->
                     [dtstart |-> FormatDate(eventData.events[i].startDate),
                      dtend   |-> FormatDate(eventData.events[i].endDate)]]]

(***************************************************************************)
(* CalendarService.handleEventExtraction                                   *)
(***************************************************************************)
NoOutcome ==
    [status |-> 0, error |-> "", eventData |-> NoData, icsContent |-> NoIcs,
     warnings |-> <<>>]

Failure(status, error) == [NoOutcome EXCEPT !.status = status, !.error = error]

InvalidInput == Failure(400, "Invalid input")

ServiceNotConfigured == Failure(500, "Service is not configured.")

ServiceNoEvent ==
    Failure(400, "No calendar event could be found in the provided content.")

ServiceInternalError ==
    Failure(500, "Failed to extract calendar event due to an internal error.")

ServiceSuccess(eventData) ==
    [NoOutcome EXCEPT !.status = 200, !.eventData = eventData,
                      !.icsContent = GenerateIcsContent(eventData)]

\* The system prompt is a template literal evaluated before the call:
\* toLocaleDateString with an unknown timeZone throws a RangeError, as does
\* toISOString of an Invalid Date, and userCurrentTime.local.split throws a
\* TypeError when `local` is no string.
PromptBuilds(request) ==
    request.userTimezone # "invalid" /\ request.userCurrentTime.kind # "bad"

\* The part of the handler that follows the awaited parseContentWithAI.
ServiceOutcome(request, res) ==
    LET parsed == ParseContentWithAI(request.content, request.userCurrentTime, res)
    IN  IF ~parsed.ok THEN ServiceInternalError
        ELSE IF ~parsed.value.hasEvent THEN ServiceNoEvent
        ELSE ServiceSuccess(parsed.value)

(***************************************************************************)
(* The first server of server.js: POST /api/extract-event and its helpers. *)
(***************************************************************************)

\* emailContent, by what the handler's patterns can see of it:
\*   time       the first match of the time-phrase pattern, if any
\*   links      the URLs and href targets of the text, in text order
\*   phrases    the phrases and provider words of the lowercased text
\*   weekdays   the weekday names (0 = sunday) the text includes
\*   tomorrow, today   the text includes that word
NoTime == [present |-> FALSE, hour |-> 0, minute |-> 0, pm |-> FALSE]

TimePhrase(h, mi, pm) == [present |-> TRUE, hour |-> h, minute |-> mi, pm |-> pm]

\* A URL or href target of the text:
\*   url     its characters            href   it is the value of an href attribute
\*   http    it starts with http:// or https://
\*   label   the single host label before the domain ("" when there is none)
\*   domain  the rest of the host      slash  a "/" follows the host
\*   words   the pattern keywords its lowercased characters contain
Link(url, href, http, label, domain, slash, words) ==
    [url |-> url, href |-> href, http |-> http, label |-> label,
     domain |-> domain, slash |-> slash, words |-> words]

LinkSentinel == "MEETING_LINK_PRESENT_BUT_NOT_EXTRACTED"

\* null
NoLink == ""

\* The hosts of the eight provider patterns of linkPatterns, in order, and
\* whether the pattern asks for a host label ([\w-]+\.) before the domain.
ProviderDomains ==
    <<"zoom.us", "zoom.com", "teams.microsoft.com", "teams.live.com",
      "webex.com", "meet.google.com", "gotomeeting.com", "bluejeans.com">>

ProviderNeedsLabel == <<TRUE, TRUE, FALSE, FALSE, TRUE, FALSE, TRUE, TRUE>>

\* (?:meeting|join|conference|call|hearing)
GenericKeywords == {"meeting", "join", "conference", "call", "hearing"}

\* (?:teams|zoom|webex|meet|meeting|join|conference|call|hearing)
HrefKeywords == {"teams", "zoom", "webex", "meet"} \cup GenericKeywords

\* Whether linkPatterns[p] matches the URL u.
LinkPatternMatches(p, u) ==
    /\ u.http
    /\ IF p <= Len(ProviderDomains)
       THEN /\ u.domain = ProviderDomains[p]
            /\ (u.label # "") = ProviderNeedsLabel[p]
            /\ u.slash
       ELSE IF p = Len(ProviderDomains) + 1
       THEN u.words \cap GenericKeywords # {}
       ELSE "teams" \in u.words

\* linkPatterns.forEach(...): the matches of pattern p and of the patterns
\* after it, each pattern's matches in text order.
RECURSIVE MatchesFrom(_, _)
MatchesFrom(p, links) ==
    IF p > Len(ProviderDomains) + 2 THEN <<>>
    ELSE LET matches(u) == LinkPatternMatches(p, u)
         IN  [i \in 1 .. Len(SelectSeq(links, matches)) |->
                 SelectSeq(links, matches)[i].url]
             \o MatchesFrom(p + 1, links)

\* The hrefPattern loop: the keyword-bearing href targets, in text order.
HrefMatches(links) ==
    LET matches(u) == u.href /\ u.words \cap HrefKeywords # {}
    IN  [i \in 1 .. Len(SelectSeq(links, matches)) |->
            SelectSeq(links, matches)[i].url]

\* /(click\s+here\s+to\s+join|join\s+the\s+hearing|join\s+meeting)/gi
JoinTextPhrases == {"click here to join", "join the hearing", "join meeting"}

ExtractMeetingLinks(content) ==
    LET byPattern == MatchesFrom(1, content.links)
        foundLinks == IF byPattern # <<>> THEN byPattern
                      ELSE HrefMatches(content.links)
    IN  IF foundLinks = <<>> /\ content.phrases \cap JoinTextPhrases # {}
        THEN LinkSentinel
        ELSE IF foundLinks # <<>> THEN foundLinks[1]
        ELSE NoLink

\* `!eventData.meetingLink || eventData.meetingLink === 'null' || ... === null`
LinkMissing(meetingLink) == meetingLink \in {NoLink, "null"}

\* emailContent.toLowerCase().includes(s), for the handler's indicators.
IndicatorPhrases ==
    {"click here to join", "join the hearing", "teams", "zoom", "virtual hearing"}

TextIncludes(content, s) ==
    \/ s \in content.phrases
    \/ \E i \in 1 .. Len(content.links) : s \in content.links[i].words

\* Mutant of MeetingLinkFallback: the scanner's result replaces the link the
\* record already carries.
MeetingLinkOverwritten(eventData, content) ==
    LET extractedLink == ExtractMeetingLinks(content)
    IN  IF extractedLink # NoLink
        THEN [eventData EXCEPT !.meetingLink = extractedLink]
        ELSE IF \E s \in IndicatorPhrases : TextIncludes(content, s)
        THEN [eventData EXCEPT !.meetingLink = LinkSentinel]
        ELSE eventData

\* The handler's fallback for a record without a meeting link.
MeetingLinkFallback(eventData, content) ==
    IF ~LinkMissing(eventData.meetingLink) THEN eventData
    ELSE LET extractedLink == ExtractMeetingLinks(content)
         IN  IF extractedLink # NoLink
             THEN [eventData EXCEPT !.meetingLink = extractedLink]
             ELSE IF \E s \in IndicatorPhrases : TextIncludes(content, s)
             THEN [eventData EXCEPT !.meetingLink = LinkSentinel]
             ELSE eventData

\* The 12-hour to 24-hour conversion of the captured hour.
ConvertTo24Hour(emailHour, emailIsPM) ==
    IF emailIsPM /\ emailHour # 12 THEN emailHour + 12
    ELSE IF ~emailIsPM /\ emailHour = 12 THEN 0
    ELSE emailHour

\* `aiHour !== correctHour`, where aiHour is NaN for an Invalid Date.
HourDiffers(aiDate, correctHour) ==
    aiDate.nan \/ HourFromTime(aiDate.t) # correctHour

\* correctTimeExtraction: the record after the call, whether a correction
\* was made, and whether toISOString threw (an Invalid Date start).
CorrectTimeExtraction(eventData, content) ==
    LET correctHour == ConvertTo24Hour(content.time.hour, content.time.pm)
        emailMinute == content.time.minute
        aiDate      == NewDate(eventData.startDate)
    IN  IF content.time.present /\ HourDiffers(aiDate, correctHour)
        THEN IF aiDate.nan
             THEN [eventData |-> eventData, corrected |-> FALSE, threw |-> TRUE]
             ELSE LET newStart == SetHours(aiDate.t, correctHour, emailMinute)
                      newEnd   == SetHours(newStart, correctHour + 1, emailMinute)
                  IN  [eventData |->
                          [eventData EXCEPT !.startDate = IsoDate(newStart),
                                            !.endDate = IsoDate(newEnd)],
                       corrected |-> TRUE, threw |-> FALSE]
        ELSE [eventData |-> eventData, corrected |-> FALSE, threw |-> FALSE]

\* The literal in Math.max(2025, currentYear).
YearFloor == 2025

MinimumYear(now) ==
    IF YearFromTime(now) > YearFloor THEN YearFromTime(now) ELSE YearFloor

YearNote(minimumYear) == [kind |-> "yearCorrected", a |-> minimumYear, b |-> 0]

\* Date.prototype.setFullYear of a Date object: an Invalid Date is treated
\* as time value +0 before the year is set.
DateSetFullYear(d, y) == SetFullYear(IF d.nan THEN 0 ELSE d.t, y)

\* Mutant of CorrectEventYear: only the start date's year is corrected.
CorrectEventYearStartOnly(eventData, now) ==
    LET minimumYear == MinimumYear(now)
        startDate   == NewDate(eventData.startDate)
    IN  IF ~startDate.nan /\ YearFromTime(startDate.t) < minimumYear
        THEN [eventData |->
                 [eventData EXCEPT
                    !.startDate = IsoDate(DateSetFullYear(startDate, minimumYear))],
              corrected |-> TRUE, warnings |-> <<YearNote(minimumYear)>>]
        ELSE [eventData |-> eventData, corrected |-> FALSE, warnings |-> <<>>]

\* correctEventYear: the record after the call and the returned object.
CorrectEventYear(eventData, now) ==
    LET minimumYear == MinimumYear(now)
        startDate   == NewDate(eventData.startDate)
        endDate     == NewDate(eventData.endDate)
    IN  IF ~startDate.nan /\ YearFromTime(startDate.t) < minimumYear
        THEN [eventData |->
                 [eventData EXCEPT
                    !.startDate = IsoDate(DateSetFullYear(startDate, minimumYear)),
                    !.endDate = IsoDate(DateSetFullYear(endDate, minimumYear))],
              corrected |-> TRUE, warnings |-> <<YearNote(minimumYear)>>]
        ELSE [eventData |-> eventData, corrected |-> FALSE, warnings |-> <<>>]

Abs(x) == IF x < 0 THEN -x ELSE x

\* Tolerance, in minutes, of validateEventData's time check.
MinuteTolerance == 5

PastDays == 7

FutureYears == 2

\* Mutant of MismatchedWeekday: only the first weekday the text names is
\* compared with the start's weekday.
FirstNamedWeekdayOnly(content, startDate) ==
    LET named(d) == d \in content.weekdays
    IN  IF \E d \in 0 .. 6 : named(d)
        THEN LET first == CHOOSE d \in 0 .. 6 : named(d) /\ \A e \in 0 .. (d - 1) : ~named(e)
             IN  IF startDate.nan \/ first # WeekDay(startDate.t) THEN first ELSE 7
        ELSE 7

\* The weekday named in the text that validateEventData reports: the first
\* of sunday..saturday the text includes that is not the start's weekday
\* (7 when there is none).
MismatchedWeekday(content, startDate) ==
    LET differs(d) == d \in content.weekdays
                      /\ (startDate.nan \/ d # WeekDay(startDate.t))
    IN  IF \E d \in 0 .. 6 : differs(d)
        THEN CHOOSE d \in 0 .. 6 : differs(d) /\ \A e \in 0 .. (d - 1) : ~differs(e)
        ELSE 7

\* Mutant of ValidateEventData: an end equal to the start is not reported.
ValidateEventDataStrictOrder(eventData, content, now) ==
    LET startDate   == NewDate(eventData.startDate)
        endDate     == NewDate(eventData.endDate)
        currentYear == YearFromTime(now)
        minimumYear == MinimumYear(now)
        startYear   == YearFromTime(startDate.t)
        yearWarning ==
            IF ~startDate.nan /\ startYear < minimumYear
            THEN <<[kind |-> "yearBefore", a |-> startYear, b |-> minimumYear]>>
            ELSE <<>>
        pastWarning ==
            IF ~startDate.nan /\ startDate.t < now /\ startYear <= currentYear
               /\ now - startDate.t > PastDays * SecPerDay
            THEN <<[kind |-> "past", a |-> 0, b |-> 0]>>
            ELSE <<>>
        twoYearsFromNow == SetFullYear(now, currentYear + FutureYears)
        futureWarning ==
            IF ~startDate.nan /\ startDate.t > twoYearsFromNow
            THEN <<[kind |-> "farFuture", a |-> 0, b |-> 0]>>
            ELSE <<>>
        expectedHour == ConvertTo24Hour(content.time.hour, content.time.pm)
        timeWarning ==
            IF content.time.present
               /\ (startDate.nan
                   \/ HourFromTime(startDate.t) # expectedHour
                   \/ Abs(MinFromTime(startDate.t) - content.time.minute)
                        > MinuteTolerance)
            THEN <<[kind |-> "timeError", a |-> expectedHour,
                    b |-> content.time.minute]>>
            ELSE <<>>
        named == MismatchedWeekday(content, startDate)
        weekdayWarning ==
            IF named < 7
            THEN <<[kind |-> "weekday", a |-> named,
                    b |-> IF startDate.nan THEN 7 ELSE WeekDay(startDate.t)]>>
            ELSE <<>>
        orderWarning ==
            IF ~startDate.nan /\ ~endDate.nan /\ endDate.t < startDate.t
            THEN <<[kind |-> "endBeforeStart", a |-> 0, b |-> 0]>>
            ELSE <<>>
    IN  yearWarning \o pastWarning \o futureWarning \o timeWarning
        \o weekdayWarning \o orderWarning

\* validateEventData: the warnings, in the order they are pushed.
ValidateEventData(eventData, content, now) ==
    LET startDate   == NewDate(eventData.startDate)
        endDate     == NewDate(eventData.endDate)
        currentYear == YearFromTime(now)
        minimumYear == MinimumYear(now)
        startYear   == YearFromTime(startDate.t)
        yearWarning ==
            IF ~startDate.nan /\ startYear < minimumYear
            THEN <<[kind |-> "yearBefore", a |-> startYear, b |-> minimumYear]>>
            ELSE <<>>
        pastWarning ==
            IF ~startDate.nan /\ startDate.t < now /\ startYear <= currentYear
               /\ now - startDate.t > PastDays * SecPerDay
            THEN <<[kind |-> "past", a |-> 0, b |-> 0]>>
            ELSE <<>>
        twoYearsFromNow == SetFullYear(now, currentYear + FutureYears)
        futureWarning ==
            IF ~startDate.nan /\ startDate.t > twoYearsFromNow
            THEN <<[kind |-> "farFuture", a |-> 0, b |-> 0]>>
            ELSE <<>>
        expectedHour == ConvertTo24Hour(content.time.hour, content.time.pm)
        timeWarning ==
            IF content.time.present
               /\ (startDate.nan
                   \/ HourFromTime(startDate.t) # expectedHour
                   \/ Abs(MinFromTime(startDate.t) - content.time.minute)
                        > MinuteTolerance)
            THEN <<[kind |-> "timeError", a |-> expectedHour,
                    b |-> content.time.minute]>>
            ELSE <<>>
        named == MismatchedWeekday(content, startDate)
        weekdayWarning ==
            IF named < 7
            THEN <<[kind |-> "weekday", a |-> named,
                    b |-> IF startDate.nan THEN 7 ELSE WeekDay(startDate.t)]>>
            ELSE <<>>
        orderWarning ==
            IF ~startDate.nan /\ ~endDate.nan /\ endDate.t <= startDate.t
            THEN <<[kind |-> "endBeforeStart", a |-> 0, b |-> 0]>>
            ELSE <<>>
    IN  yearWarning \o pastWarning \o futureWarning \o timeWarning
        \o weekdayWarning \o orderWarning

TimeNote == [kind |-> "timeCorrected", a |-> 0, b |-> 0]

\* formatICSDate: the creation timestamp stands in for a missing or
\* unparseable date.
FormatICSDate(dateStr, now) ==
    IF ~Truthy(dateStr) \/ NewDate(dateStr).nan
    THEN [kind |-> "basic", t |-> now]
    ELSE [kind |-> "basic", t |-> NewDate(dateStr).t]

\* generateICSContent: one VEVENT.
GenerateICSContent(eventData, now) ==
    [present |-> TRUE,
     vevents |-> <<[dtstart |-> FormatICSDate(eventData.startDate, now),
                    dtend   |-> FormatICSDate(eventData.endDate, now)]>>]

LegacyNotConfigured == Failure(500, "OpenAI API key not configured")

LegacyFormatError == Failure(500, "AI response format error")

LegacyNoEvent ==
    Failure(400, "No calendar event information found in the email content")

LegacyRateLimited ==
    Failure(429, "OpenAI rate limit exceeded. Please try again in a few moments.")

LegacyTooLarge == Failure(400, "Email content too large")

LegacyGenericError == Failure(500, "Failed to extract calendar event")

\* Mutant of LegacyCatch: the failure is classified by its status alone.
LegacyCatchByStatus(error) ==
    IF error.status = 429 THEN LegacyRateLimited
    ELSE IF error.status = 400 THEN LegacyTooLarge
    ELSE LegacyGenericError

\* The catch clause of the handler.
LegacyCatch(error) ==
    IF error.status = 429 /\ error.code = "rate_limit_exceeded"
    THEN LegacyRateLimited
    ELSE IF error.status = 400 /\ error.etype = "invalid_request_error"
    THEN LegacyTooLarge
    ELSE LegacyGenericError

\* An error thrown by the handler's own code carries no status.
ThrownInHandler == [status |-> 0, code |-> "", etype |-> ""]

\* The corrections, the warnings, the calendar document and the response.
LegacyProcess(eventData, content, now) ==
    LET linked == MeetingLinkFallback(eventData, content)
        timed  == CorrectTimeExtraction(linked, content)
        yeared == CorrectEventYear(timed.eventData, now)
        warnings == ValidateEventData(yeared.eventData, content, now)
        withTime == IF timed.corrected THEN <<TimeNote>> \o warnings ELSE warnings
        withYear == IF yeared.corrected THEN yeared.warnings \o withTime ELSE withTime
    IN  IF timed.threw THEN LegacyCatch(ThrownInHandler)
        ELSE [NoOutcome EXCEPT
                !.status = 200,
                !.eventData = yeared.eventData,
                !.icsContent = GenerateICSContent(yeared.eventData, now),
                !.warnings = withYear]

\* What the handler reports with console.error.
LegacyLogged(request, res) ==
    IF res.kind = "error" THEN "Error extracting event: APIError"
    ELSE IF res.kind = "text" THEN "JSON Parse Error"
    ELSE IF res.hasEvent
            /\ CorrectTimeExtraction(
                  MeetingLinkFallback(res.events[1], request.content),
                  request.content).threw
    THEN "Error extracting event: RangeError"
    ELSE ""

\* The part of the handler that follows the awaited completion.
LegacyOutcome(request, res, clock) ==
    IF res.kind = "error" THEN LegacyCatch(res)
    ELSE IF res.kind = "text" THEN LegacyFormatError
    ELSE IF ~res.hasEvent THEN LegacyNoEvent
    ELSE LegacyProcess(res.events[1], request.content, clock)

(***************************************************************************)
(* CalendarService.generateIcsContent, line by line.  A string is a        *)
(* sequence of pieces; a piece is one character or a run of characters     *)
(* holding no carriage return and no line feed.  The empty sequence stands *)
(* for the empty string and for an absent field, which the code tests      *)
(* alike (title || ..., location || '', if (timezone), attendee.name ?).   *)
(* A location is kept character by character, since its line is folded by *)
(* length.                                                                 *)
(***************************************************************************)
CR == "\r"

LF == "\n"

Backslash == "\\"

Min(a, b) == IF a <= b THEN a ELSE b

\* The concatenation of pieces lo .. hi of a sequence of strings.
RECURSIVE Concat(_, _, _)
Concat(pieces, lo, hi) ==
    IF lo > hi THEN <<>>
    ELSE IF lo = hi THEN pieces[lo]
    ELSE Concat(pieces, lo, (lo + hi) \div 2) \o Concat(pieces, (lo + hi) \div 2 + 1, hi)

\* String.prototype.replace(/c/g, by)
ReplaceAll(s, c, by) ==
    Concat([i \in 1 .. Len(s) |-> IF s[i] = c THEN by ELSE <<s[i]>>], 1, Len(s))

\* Array.prototype.join(separator)
Join(parts, separator) ==
    Concat([i \in 1 .. Len(parts) |->
               IF i = 1 THEN parts[i] ELSE separator \o parts[i]], 1, Len(parts))

\* String.prototype.substring(from, to), on 0-based positions.
Substring(s, from, to) == SubSeq(s, from + 1, Min(to, Len(s)))

\* Mutant of EscapeLocation: the backslash is escaped last.
EscapeLocationBackslashLast(icsLocation) ==
    ReplaceAll(
      ReplaceAll(
        ReplaceAll(
          ReplaceAll(
            ReplaceAll(icsLocation, ";", <<Backslash, ";">>),
            ",", <<Backslash, ",">>),
          LF, <<Backslash, "n">>),
        CR, <<Backslash, "r">>),
      Backslash, <<Backslash, Backslash>>)

\* escapedLocation: backslash, semicolon, comma, line feed, carriage return,
\* replaced in that order.
EscapeLocation(icsLocation) ==
    ReplaceAll(
      ReplaceAll(
        ReplaceAll(
          ReplaceAll(
            ReplaceAll(icsLocation, Backslash, <<Backslash, Backslash>>),
            ";", <<Backslash, ";">>),
          ",", <<Backslash, ",">>),
        LF, <<Backslash, "n">>),
      CR, <<Backslash, "r">>)

FirstLineLength == 75

ContinuationLength == 74

\* The while loop of foldLine: each round appends "\r\n " and the next 74
\* characters of what remains.
RECURSIVE FoldRemaining(_)
FoldRemaining(remaining) ==
    IF Len(remaining) > 0
    THEN <<CR, LF, " ">> \o Substring(remaining, 0, ContinuationLength)
            \o FoldRemaining(Substring(remaining, ContinuationLength, Len(remaining)))
    ELSE <<>>

\* Mutant of FoldLine: continuation lines are indented without counting the
\* indent, 75 characters of text each.
FoldLineWideContinuation(line) ==
    IF Len(line) <= FirstLineLength THEN line
    ELSE LET RECURSIVE Wide(_)
             Wide(remaining) ==
                IF Len(remaining) > 0
                THEN <<CR, LF, " ">> \o Substring(remaining, 0, FirstLineLength)
                        \o Wide(Substring(remaining, FirstLineLength, Len(remaining)))
                ELSE <<>>
         IN  Substring(line, 0, FirstLineLength)
                \o Wide(Substring(line, FirstLineLength, Len(line)))

\* foldLine(line)
FoldLine(line) ==
    IF Len(line) <= FirstLineLength THEN line
    ELSE Substring(line, 0, FirstLineLength)
            \o FoldRemaining(Substring(line, FirstLineLength, Len(line)))

LocationPrefix == <<"L", "O", "C", "A", "T", "I", "O", "N", ":">>

\* icsLocation: the parts of locationDetails joined by ", ", or the plain
\* location when there are no details or no part is filled.
ComposeLocation(event) ==
    LET locationDetails == event.locationDetails
        addressParts ==
            SelectSeq(<<locationDetails.city, locationDetails.state,
                        locationDetails.country>>, LAMBDA p : p # <<>>)
        locationParts ==
            (IF locationDetails.name # <<>> THEN <<locationDetails.name>> ELSE <<>>)
            \o (IF locationDetails.address # <<>> THEN <<locationDetails.address>>
                ELSE IF Len(addressParts) > 0
                THEN <<Join(addressParts, <<",", " ">>)>>
                ELSE <<>>)
        joined == Join(locationParts, <<",", " ">>)
    IN  IF locationDetails = NoLocationDetails THEN event.location
        ELSE IF joined # <<>> THEN joined
        ELSE event.location

Digits == <<"0", "1", "2", "3", "4", "5", "6", "7", "8", "9">>

\* A number in decimal, padded with zeros to the given width.
RECURSIVE Padded(_, _)
Padded(n, width) ==
    IF width = 0 THEN <<>>
    ELSE Padded(n \div 10, width - 1) \o <<Digits[(n % 10) + 1]>>

\* Date.prototype.toISOString, character by character: YYYY-MM-DDTHH:mm:ss.sssZ
ISOText(t) ==
    Padded(YearFromTime(t), 4) \o <<"-">> \o Padded(MonthFromTime(t), 2) \o <<"-">>
    \o Padded(DateFromTime(t), 2) \o <<"T">> \o Padded(HourFromTime(t), 2) \o <<":">>
    \o Padded(MinFromTime(t), 2) \o <<":">> \o Padded(SecFromTime(t), 2) \o <<".">>
    \o Padded(0, 3) \o <<"Z">>

\* toISOString().replace(/[-:.]/g, '').slice(0, -4) + 'Z'
CompactUTC(t) ==
    LET stripped == SelectSeq(ISOText(t), LAMBDA c : c \notin {"-", ":", "."})
    IN  Substring(stripped, 0, Len(stripped) - 4) \o <<"Z">>

\* email.split('@')[0]
LocalPart(email) ==
    IF \E i \in 1 .. Len(email) : email[i] = "@"
    THEN SubSeq(email, 1, (CHOOSE i \in 1 .. Len(email) :
                              email[i] = "@" /\ \A j \in 1 .. (i - 1) : email[j] # "@") - 1)
    ELSE email

\* attendee.name ? attendee.name : attendee.email.split('@')[0]
DisplayName(attendee) ==
    IF attendee.name # <<>> THEN attendee.name ELSE LocalPart(attendee.email)

OrganizerLine(organizer) ==
    <<"ORGANIZER;CN=\"">> \o DisplayName(organizer) \o <<"\":mailto:">> \o organizer.email

AttendeeLine(attendee) ==
    <<"ATTENDEE;CN=\"">> \o DisplayName(attendee)
        \o <<"\";ROLE=REQ-PARTICIPANT;PARTSTAT=NEEDS-ACTION;RSVP=TRUE:mailto:">>
        \o attendee.email

\* The ORGANIZER line, when the first attendee has an email, and one ATTENDEE
\* line for each attendee that has an email.
AttendeeLines(attendees) ==
    (IF Len(attendees) > 0 /\ attendees[1].email # <<>>
     THEN <<OrganizerLine(attendees[1])>> ELSE <<>>)
    \o [i \in 1 .. Len(SelectSeq(attendees, LAMBDA a : a.email # <<>>)) |->
           AttendeeLine(SelectSeq(attendees, LAMBDA a : a.email # <<>>)[i])]

\* icsParts.splice(-1, 0, item): the item goes in before the last element.
SpliceBeforeLast(parts, item) ==
    SubSeq(parts, 1, Len(parts) - 1) \o <<item>> \o <<parts[Len(parts)]>>

\* What events.forEach pushes for one event.
EventParts(event, uuid, stamp) ==
    LET pushed ==
            << <<"BEGIN:VEVENT">>,
               <<"UID:", uuid, "@aical.com">>,
               <<"DTSTAMP:">> \o stamp,
               <<"DTSTART:">> \o CompactUTC(NewDate(event.startDate).t),
               <<"DTEND:">> \o CompactUTC(NewDate(event.endDate).t),
               <<"SUMMARY:">> \o (IF event.title # <<>> THEN event.title
                                                       ELSE <<"No Title">>),
               <<"DESCRIPTION:">> \o ReplaceAll(event.description, LF, <<Backslash, "n">>),
               FoldLine(LocationPrefix \o EscapeLocation(ComposeLocation(event))),
               <<"STATUS:CONFIRMED">>,
               <<"SEQUENCE:0">>,
               <<"TRANSP:OPAQUE">> >>
            \o AttendeeLines(event.attendees)
        zoned == IF event.timezone # <<>>
                 THEN SpliceBeforeLast(pushed, <<"X-ORIGINAL-TIMEZONE:">> \o event.timezone)
                 ELSE pushed
    IN  Append(zoned, <<"END:VEVENT">>)

IcsHeader ==
    << <<"BEGIN:VCALENDAR">>, <<"VERSION:2.0">>,
       <<"PRODID:-//AiCal//Event Extractor//EN">>, <<"CALSCALE:GREGORIAN">>,
       <<"METHOD:REQUEST">>, <<"X-WR-CALNAME:Calendar Invitation">>,
       <<"X-WR-TIMEZONE:UTC">> >>

RECURSIVE AllEventParts(_, _, _)
AllEventParts(events, uuids, stamp) ==
    IF events = <<>> THEN <<>>
    ELSE EventParts(Head(events), Head(uuids), stamp)
            \o AllEventParts(Tail(events), Tail(uuids), stamp)

\* generateIcsContent(eventData): the document as one string.  uuids are the
\* values uuidv4() returns, one per event; clock is new Date().
GenerateIcsText(eventData, uuids, clock) ==
    Join(IcsHeader \o AllEventParts(eventData.events, uuids, CompactUTC(clock))
            \o << <<"END:VCALENDAR">> >>,
         <<CR, LF>>)

(***************************************************************************)
(* The legacy handler's preparation of the text it sends to the inference  *)
(* service.  A text is kept as a sequence of runs, each a number of        *)
(* characters from one origin: the request's emailContent ("text"), its    *)
(* cleaned htmlContent ("html"), a label the handler writes, or the        *)
(* truncation marker.                                                      *)
(***************************************************************************)
Run(origin, len) == IF len > 0 THEN <<[origin |-> origin, len |-> len]>> ELSE <<>>

\* String.prototype.length
RECURSIVE Length(_)
Length(content) ==
    IF content = <<>> THEN 0 ELSE Head(content).len + Length(Tail(content))

\* content.substring(0, n)
RECURSIVE Prefix(_, _)
Prefix(content, n) ==
    IF content = <<>> \/ n <= 0 THEN <<>>
    ELSE IF Head(content).len >= n THEN Run(Head(content).origin, n)
    ELSE <<Head(content)>> \o Prefix(Tail(content), n - Head(content).len)

\* '\n\n[Content truncated for processing...]'
MarkerLength == 39

TruncationMarker == Run("marker", MarkerLength)

\* Mutant of TruncateContent: the text is cut without a marker.
TruncateContentSilently(content, maxLength) ==
    IF Length(content) <= maxLength THEN content
    ELSE Prefix(content, maxLength)

\* truncateContent(content, maxLength)
TruncateContent(content, maxLength) ==
    IF Length(content) <= maxLength THEN content
    ELSE Prefix(content, maxLength) \o TruncationMarker

PartLimit == 2500

DispatchLimit == 5000

\* null, undefined or blank htmlContent.
NoHtml == [given |-> FALSE, cleaned |-> <<>>]

\* htmlContent that holds something, with what cleanHtmlContent makes of it.
Html(len) == [given |-> TRUE, cleaned |-> Run("html", len)]

\* let contentForAI = emailContent; if (htmlContent && htmlContent.trim() &&
\* inputType === 'rich') { ... }.  (cleanedHtml.length > emailContent.length *
\* 1.2 is compared here in fifths.)
ContentForAI(emailContent, htmlContent, inputType) ==
    IF htmlContent.given /\ inputType = "rich"
    THEN LET cleanedHtml == htmlContent.cleaned
         IN  IF 5 * Length(cleanedHtml) > 6 * Length(emailContent)
             THEN Run("HTML Content:\n", 14) \o TruncateContent(cleanedHtml, PartLimit)
                    \o Run("\n\nText Content:\n", 16)
                    \o TruncateContent(emailContent, PartLimit)
             ELSE IF Length(cleanedHtml) > Length(emailContent) THEN cleanedHtml
             ELSE emailContent
    ELSE emailContent

(***************************************************************************)
(* State                                                                   *)
(***************************************************************************)
VARIABLES
    route,      \* which server of server.js handles the request
    apiKey,     \* whether OPENAI_API_KEY is configured
    now,        \* the server's clock (new Date())
    req,        \* the request
    pc,         \* the handler's position: "idle", "awaiting", "done"
    calls,      \* calls issued to the inference service for this request
    aiResult,   \* what the awaited call produced
    logged,     \* the error console.error reported from a catch clause
    outcome,    \* the response sent
    responses,  \* how many responses were sent
    ev,         \* corrector runs: the event record being corrected
    text,       \* corrector runs: the source text's features
    cstep,      \* corrector runs: the correction applied next
    runs,       \* corrector runs: one entry per completed application
    args,       \* a helper called on its own: its arguments
    returned,   \* a helper called on its own: what it returned
    sessions,   \* concurrent requests: each request's handler and its state
    contentText, \* page: the active input's text (its length, and its length trimmed)
    extractBtnDisabled, \* page: extractBtn.disabled
    inflight,   \* page: the requests started and not yet answered
    started,    \* page: how many requests were started
    currentIcsContent   \* page: the request whose calendar document is stored

requestVars == <<req, pc, calls, aiResult, logged, outcome, responses>>

correctorVars == <<ev, text, cstep, runs>>

callVars == <<args, returned>>

concurrentVars == <<knownLocations, sessions>>

clientVars == <<contentText, extractBtnDisabled, inflight, started, currentIcsContent>>

vars == <<route, apiKey, now, requestVars, correctorVars, callVars, concurrentVars,
          clientVars>>

\* No concurrent requests: the table is as constructed.
IdleServer == knownLocations = ConstructedLocations /\ sessions = <<>>

\* No page.
IdlePage ==
    /\ contentText = [length |-> 0, trimmed |-> 0]
    /\ extractBtnDisabled = TRUE
    /\ inflight = {}
    /\ started = 0
    /\ currentIcsContent = 0

PlainContent ==
    [time |-> NoTime, links |-> <<>>, phrases |-> {}, weekdays |-> {},
     tomorrow |-> FALSE, today |-> FALSE]

\* Texts sent to the CalendarService.
ServiceContents ==
    {[PlainContent EXCEPT !.tomorrow = tm, !.today = td] :
        tm \in BOOLEAN, td \in BOOLEAN}

\* URLs and href targets of the sample texts.
ZoomLink ==
    Link("https://zoom.us/j/123", FALSE, TRUE, "", "zoom.us", TRUE, {"zoom"})

ZoomHostedLink ==
    Link("https://us02web.zoom.us/j/555", FALSE, TRUE, "us02web", "zoom.us", TRUE,
         {"zoom"})

TeamsLink ==
    Link("https://teams.microsoft.com/l/meetup-join/19", FALSE, TRUE, "",
         "teams.microsoft.com", TRUE, {"teams", "meet", "join"})

GoogleMeetLink ==
    Link("https://meet.google.com/abc-defg-hij", FALSE, TRUE, "",
         "meet.google.com", TRUE, {"meet"})

JoinLink ==
    Link("https://example.com/join/9", FALSE, TRUE, "", "example.com", TRUE,
         {"join"})

AgendaLink ==
    Link("https://example.com/agenda.pdf", FALSE, TRUE, "", "example.com", TRUE, {})

WebexBareHost ==
    Link("https://acme.webex.com", FALSE, TRUE, "acme", "webex.com", FALSE,
         {"webex"})

\* <a href="/conference/42">
RelativeHref == Link("/conference/42", TRUE, FALSE, "", "", FALSE, {"conference"})

\* <a href="https://zoom.us/j/123">
ZoomHref ==
    Link("https://zoom.us/j/123", TRUE, TRUE, "", "zoom.us", TRUE, {"zoom"})

\* <a href="https://example.com/unsubscribe">
PlainHref ==
    Link("https://example.com/unsubscribe", TRUE, TRUE, "", "example.com", TRUE, {})

\* "Meeting tomorrow at 2pm, join via https://zoom.us/j/123"
MeetingTomorrowText ==
    [PlainContent EXCEPT !.time = TimePhrase(2, 0, TRUE), !.tomorrow = TRUE,
                         !.links = <<ZoomLink>>]

\* Texts sent to the first server.
LegacyContents ==
    {PlainContent,
     \* "... Wednesday at 3pm"
     [PlainContent EXCEPT !.time = TimePhrase(3, 0, TRUE), !.weekdays = {3}],
     \* "... at 3:30 PM"
     [PlainContent EXCEPT !.time = TimePhrase(3, 30, TRUE)],
     \* "... Friday 10:00am, Click Here to Join"
     [PlainContent EXCEPT !.time = TimePhrase(10, 0, FALSE), !.weekdays = {5},
                          !.phrases = {"click here to join"}],
     MeetingTomorrowText,
     \* "... 2pm ... https://example.com/agenda.pdf ... https://us02web.zoom.us/j/555"
     [PlainContent EXCEPT !.time = TimePhrase(2, 0, TRUE),
                          !.links = <<AgendaLink, ZoomHostedLink>>],
     \* "... 12am ... <a href='/conference/42'>"
     [PlainContent EXCEPT !.time = TimePhrase(12, 0, FALSE),
                          !.links = <<RelativeHref>>],
     \* "... the virtual hearing ..."
     [PlainContent EXCEPT !.phrases = {"virtual hearing"}],
     \* "Please join the meeting ..."
     [PlainContent EXCEPT !.phrases = {"join the meeting"}]}

\* Server clocks: 2025-08-05T12:00:00Z and 2026-11-05T09:00:00Z.
Clocks == {SampleNow, MakeDate(2026, 11, 5, 9, 0, 0)}

\* Event objects of the first server's response format.
LegacyDates ==
    {<<RawDate(SampleStart), IsoDate(SampleEnd)>>,
     <<IsoDate(MakeDate(2024, 2, 29, 10, 0, 0)), IsoDate(MakeDate(2024, 2, 29, 11, 0, 0))>>,
     <<IsoDate(MakeDate(2024, 12, 31, 23, 30, 0)), IsoDate(MakeDate(2025, 1, 1, 0, 30, 0))>>,
     <<IsoDate(SampleStart), BadDate>>,
     <<BadDate, IsoDate(SampleEnd)>>}

LegacyEvents ==
    {[startDate |-> d[1], endDate |-> d[2], meetingLink |-> l] :
        d \in LegacyDates, l \in {NoLink, "null", "https://teams.microsoft.com/l/1"}}

\* {"hasEvent": false, "startDate": "Not specified", ...}
NoEventWithFields ==
    [NoEventJson EXCEPT !.shape = "flat",
                        !.events = <<[startDate |-> BadDate, endDate |-> BadDate,
                                      meetingLink |-> NoLink]>>]

LegacyResults ==
    InferenceErrors
    \cup {UnparseableText, NoEventJson, Fenced(NoEventJson), NoEventWithFields}
    \cup {FlatJson(e) : e \in LegacyEvents}

ServiceRequests ==
    [inputValid : BOOLEAN, userTimezone : Timezones,
     userCurrentTime : ClientTimes, content : ServiceContents]

LegacyRequests ==
    [inputValid : BOOLEAN, userTimezone : {"default"},
     userCurrentTime : {NoClientTime}, content : LegacyContents]

\* No helper is called on its own.
NoArgs == [none |-> TRUE]

NotReturned == [done |-> FALSE]

\* No record under correction.
NoRecord == [startDate |-> NoDate, endDate |-> NoDate, meetingLink |-> NoLink]

Init ==
    /\ route \in {"service", "legacy"}
    /\ apiKey \in BOOLEAN
    /\ now \in IF route = "service" THEN {SampleNow} ELSE Clocks
    /\ req \in IF route = "service" THEN ServiceRequests ELSE LegacyRequests
    /\ pc = "idle"
    /\ calls = 0
    /\ aiResult = NoResult
    /\ logged = ""
    /\ outcome = NoOutcome
    /\ responses = 0
    /\ ev = NoRecord
    /\ text = PlainContent
    /\ cstep = "none"
    /\ runs = <<>>
    /\ args = NoArgs
    /\ returned = NotReturned
    /\ IdleServer
    /\ IdlePage

Respond(out) ==
    /\ outcome' = out
    /\ responses' = responses + 1
    /\ pc' = "done"

\* validationResult(req) is not empty.
ServiceRejectInput ==
    /\ pc = "idle" /\ route = "service"
    /\ ~req.inputValid
    /\ Respond(InvalidInput)
    /\ UNCHANGED <<route, apiKey, now, req, calls, aiResult, logged, correctorVars, callVars, concurrentVars, clientVars>>

\* this.openai.apiKey is not set.
ServiceRejectNoKey ==
    /\ pc = "idle" /\ route = "service"
    /\ req.inputValid /\ ~apiKey
    /\ Respond(ServiceNotConfigured)
    /\ UNCHANGED <<route, apiKey, now, req, calls, aiResult, logged, correctorVars, callVars, concurrentVars, clientVars>>

\* Building the prompt throws inside the handler's try block.
ServicePromptThrows ==
    /\ pc = "idle" /\ route = "service"
    /\ req.inputValid /\ apiKey /\ ~PromptBuilds(req)
    /\ logged' = "RangeError/TypeError"
    /\ Respond(ServiceInternalError)
    /\ UNCHANGED <<route, apiKey, now, req, calls, aiResult, correctorVars, callVars, concurrentVars, clientVars>>

\* The prompt is built and the completion is requested; the handler awaits.
ServiceCall ==
    /\ pc = "idle" /\ route = "service"
    /\ req.inputValid /\ apiKey /\ PromptBuilds(req)
    /\ calls' = calls + 1
    /\ pc' = "awaiting"
    /\ UNCHANGED <<route, apiKey, now, req, aiResult, logged, outcome, responses, correctorVars, callVars, concurrentVars, clientVars>>

\* The awaited call settles and the handler runs to its response.
ServiceComplete ==
    /\ pc = "awaiting" /\ route = "service"
    /\ \E res \in ServiceResults :
          /\ aiResult' = res
          /\ logged' = ParseContentWithAI(req.content, req.userCurrentTime, res).caught
          /\ Respond(ServiceOutcome(req, res))
    /\ UNCHANGED <<route, apiKey, now, req, calls, correctorVars, callVars, concurrentVars, clientVars>>

LegacyRejectInput ==
    /\ pc = "idle" /\ route = "legacy"
    /\ ~req.inputValid
    /\ Respond(InvalidInput)
    /\ UNCHANGED <<route, apiKey, now, req, calls, aiResult, logged, correctorVars, callVars, concurrentVars, clientVars>>

\* process.env.OPENAI_API_KEY is not set.
LegacyRejectNoKey ==
    /\ pc = "idle" /\ route = "legacy"
    /\ req.inputValid /\ ~apiKey
    /\ Respond(LegacyNotConfigured)
    /\ UNCHANGED <<route, apiKey, now, req, calls, aiResult, logged, correctorVars, callVars, concurrentVars, clientVars>>

\* The content is prepared and the completion is requested.
LegacyCall ==
    /\ pc = "idle" /\ route = "legacy"
    /\ req.inputValid /\ apiKey
    /\ calls' = calls + 1
    /\ pc' = "awaiting"
    /\ UNCHANGED <<route, apiKey, now, req, aiResult, logged, outcome, responses, correctorVars, callVars, concurrentVars, clientVars>>

LegacyComplete ==
    /\ pc = "awaiting" /\ route = "legacy"
    /\ \E res \in LegacyResults :
          /\ aiResult' = res
          /\ logged' = LegacyLogged(req, res)
          /\ Respond(LegacyOutcome(req, res, now))
    /\ UNCHANGED <<route, apiKey, now, req, calls, correctorVars, callVars, concurrentVars, clientVars>>

Next ==
    \/ ServiceRejectInput
    \/ ServiceRejectNoKey
    \/ ServicePromptThrows
    \/ ServiceCall
    \/ ServiceComplete
    \/ LegacyRejectInput
    \/ LegacyRejectNoKey
    \/ LegacyCall
    \/ LegacyComplete

Spec == Init /\ [][Next]_vars


(***************************************************************************)
(* The date/time corrections applied repeatedly to one record, each        *)
(* application in the handler's order: correctTimeExtraction, then         *)
(* correctEventYear, with the same source text and clock.                  *)
(***************************************************************************)

\* Applications of the corrections in one run.
MaxPasses == 2

\* First matches of the time-phrase pattern (\d{1,2})(?::(\d{2}))?\s*(am|pm|...):
\* "3pm", "3:30 PM", "3:03pm", "10:00am", "12am", "12:15 p.m.", "11:45pm",
\* "14:30 pm", "2:75pm", "0:10am".
TimePhrases ==
    {NoTime,
     TimePhrase(3, 0, TRUE), TimePhrase(3, 30, TRUE), TimePhrase(3, 3, TRUE),
     TimePhrase(10, 0, FALSE), TimePhrase(12, 0, FALSE), TimePhrase(12, 15, TRUE),
     TimePhrase(11, 45, TRUE), TimePhrase(14, 30, TRUE), TimePhrase(2, 75, TRUE),
     TimePhrase(0, 10, FALSE)}

\* Records given to the corrector: start and end instants.
CorrectorDates ==
    {<<MakeDate(2025, 8, 6, 15, 0, 0), MakeDate(2025, 8, 6, 16, 0, 0)>>,
     <<MakeDate(2025, 8, 6, 15, 4, 30), MakeDate(2025, 8, 6, 17, 0, 0)>>,
     <<MakeDate(2024, 2, 29, 10, 0, 0), MakeDate(2024, 2, 29, 11, 0, 0)>>,
     <<MakeDate(2024, 12, 31, 23, 30, 0), MakeDate(2025, 1, 1, 0, 30, 0)>>,
     <<MakeDate(2023, 6, 15, 9, 0, 0), MakeDate(2023, 6, 15, 9, 45, 0)>>,
     <<MakeDate(2027, 3, 1, 0, 0, 0), MakeDate(2027, 3, 2, 0, 0, 0)>>,
     <<MakeDate(2026, 12, 31, 23, 0, 0), MakeDate(2026, 12, 31, 23, 30, 0)>>}

CorrectorRecords ==
    {[startDate |-> RawDate(d[1]), endDate |-> IsoDate(d[2]), meetingLink |-> NoLink] :
        d \in CorrectorDates}

\* Server clocks: in 2024, 2025, 2026 and (a leap year) 2028.
CorrectorClocks ==
    {MakeDate(2024, 11, 20, 8, 0, 0), SampleNow, MakeDate(2026, 11, 5, 9, 0, 0),
     MakeDate(2028, 1, 10, 9, 0, 0)}

NoRun ==
    [before |-> NoRecord, afterTime |-> NoRecord, after |-> NoRecord,
     timeCorrected |-> FALSE, yearCorrected |-> FALSE, yearWarnings |-> <<>>,
     complete |-> FALSE]

InitCorrector ==
    /\ route = "corrector"
    /\ apiKey = TRUE
    /\ now \in CorrectorClocks
    /\ req = [inputValid |-> TRUE, userTimezone |-> "default",
              userCurrentTime |-> NoClientTime, content |-> PlainContent]
    /\ pc = "none"
    /\ calls = 0
    /\ aiResult = NoResult
    /\ logged = ""
    /\ outcome = NoOutcome
    /\ responses = 0
    /\ ev \in CorrectorRecords
    /\ text \in {[PlainContent EXCEPT !.time = tp] : tp \in TimePhrases}
    /\ cstep = "time"
    /\ runs = <<>>
    /\ args = NoArgs
    /\ returned = NotReturned
    /\ IdleServer
    /\ IdlePage

\* const timeCorrected = correctTimeExtraction(eventData, emailContent)
ApplyTimeCorrection ==
    /\ route = "corrector" /\ cstep = "time"
    /\ Len(runs) < MaxPasses
    /\ LET result == CorrectTimeExtraction(ev, text)
       IN  /\ ev' = result.eventData
           /\ runs' = Append(runs, [NoRun EXCEPT !.before = ev,
                                                 !.afterTime = result.eventData,
                                                 !.timeCorrected = result.corrected])
    /\ cstep' = "year"
    /\ UNCHANGED <<route, apiKey, now, requestVars, text, callVars, concurrentVars, clientVars>>

\* const yearCorrection = correctEventYear(eventData, emailContent)
ApplyYearCorrection ==
    /\ route = "corrector" /\ cstep = "year"
    /\ LET result == CorrectEventYear(ev, now)
       IN  /\ ev' = result.eventData
           /\ runs' = [runs EXCEPT ![Len(runs)] =
                          [@ EXCEPT !.after = result.eventData,
                                    !.yearCorrected = result.corrected,
                                    !.yearWarnings = result.warnings,
                                    !.complete = TRUE]]
    /\ cstep' = "time"
    /\ UNCHANGED <<route, apiKey, now, requestVars, text, callVars, concurrentVars, clientVars>>

NextCorrector == ApplyTimeCorrection \/ ApplyYearCorrection

SpecCorrector == InitCorrector /\ [][NextCorrector]_vars


(***************************************************************************)
(* Helpers called on their own: the arguments are drawn in the initial     *)
(* state and one step calls the helper and records what it returned.       *)
(***************************************************************************)
CallInit(helper, argSet) ==
    /\ route = helper
    /\ apiKey = TRUE
    /\ now = SampleNow
    /\ req = [inputValid |-> TRUE, userTimezone |-> "default",
              userCurrentTime |-> NoClientTime, content |-> PlainContent]
    /\ pc = "none"
    /\ calls = 0
    /\ aiResult = NoResult
    /\ logged = ""
    /\ outcome = NoOutcome
    /\ responses = 0
    /\ ev = NoRecord
    /\ text = PlainContent
    /\ cstep = "none"
    /\ runs = <<>>
    /\ args \in argSet
    /\ returned = NotReturned
    /\ IdleServer
    /\ IdlePage

Return(value) ==
    /\ ~returned.done
    /\ returned' = [done |-> TRUE, value |-> value]
    /\ UNCHANGED <<route, apiKey, now, requestVars, correctorVars, args, concurrentVars, clientVars>>

\* What /(\d{1,2})(?::(\d{2}))?\s*(am|pm|a\.m\.|p\.m\.)/gi can capture: an
\* hour of one or two digits, no minutes or two digits, and the half of day.
CapturedMinutes == {0, 5, 30, 59, 75}

CapturedPhrases ==
    {TimePhrase(h, mi, pm) : h \in 0 .. 99, mi \in CapturedMinutes, pm \in BOOLEAN}

InitTimePhrase == CallInit("timePhrase", CapturedPhrases)

\* emailHour, emailMinute, emailIsPM and the conversion to correctHour.
ConvertTimePhrase ==
    /\ route = "timePhrase"
    /\ Return([hour |-> ConvertTo24Hour(args.hour, args.pm), minute |-> args.minute])

SpecTimePhrase == InitTimePhrase /\ [][ConvertTimePhrase]_vars


\* validateEventData called on its own.
\* Start dates around the limits of the clocks below: one day ahead, exactly
\* 7 days back and one second more, exactly 2 years ahead and one second
\* more, a Tuesday and a Friday, and dates that do not parse.
ValidatorStarts ==
    {RawDate(SampleStart),
     IsoDate(MakeDate(2025, 7, 29, 12, 0, 0)), IsoDate(MakeDate(2025, 7, 29, 11, 59, 59)),
     IsoDate(MakeDate(2027, 8, 5, 12, 0, 0)), IsoDate(MakeDate(2027, 8, 5, 12, 0, 1)),
     IsoDate(MakeDate(2024, 2, 29, 10, 0, 0)),
     IsoDate(MakeDate(2025, 8, 12, 14, 3, 0)), IsoDate(MakeDate(2025, 8, 8, 14, 30, 0)),
     IsoDate(MakeDate(2030, 2, 28, 10, 0, 0)), IsoDate(MakeDate(2030, 3, 1, 9, 0, 1)),
     BadDate, NoDate}

\* End dates: an hour after the start, the start itself, an hour before it,
\* or a string that does not parse.
ValidatorEnds(startDate) ==
    {IsoDate(startDate.t + SecPerHour), IsoDate(startDate.t),
     IsoDate(startDate.t - SecPerHour), BadDate}

ValidatorRecords ==
    {[startDate |-> sd, endDate |-> ed, meetingLink |-> NoLink] :
        sd \in ValidatorStarts, ed \in UNION {ValidatorEnds(d) : d \in ValidatorStarts}}

\* Texts naming no weekday, Tuesday, Wednesday, Tuesday and Wednesday,
\* Wednesday and Friday; with no time phrase, "2pm" or "2:30 PM".
ValidatorContents ==
    {[PlainContent EXCEPT !.weekdays = wd, !.time = tp] :
        wd \in {{}, {2}, {3}, {2, 3}, {3, 5}},
        tp \in {NoTime, TimePhrase(2, 0, TRUE), TimePhrase(2, 30, TRUE)}}

\* Server clocks: 2025-08-05T12:00:00Z and 2028-02-29T09:00:00Z.
ValidatorClocks == {SampleNow, MakeDate(2028, 2, 29, 9, 0, 0)}

InitValidator ==
    CallInit("validateEventData",
             [eventData : ValidatorRecords, originalEmail : ValidatorContents,
              now : ValidatorClocks])

\* const warnings = validateEventData(eventData, emailContent)
CallValidateEventData ==
    /\ route = "validateEventData"
    /\ Return([warnings |-> ValidateEventData(args.eventData, args.originalEmail,
                                              args.now),
               eventData |-> args.eventData,
               threw |-> FALSE])

SpecValidator == InitValidator /\ [][CallValidateEventData]_vars


\* extractMeetingLinks called on its own.
\* URLs and href targets in one text.
MaxLinks == 2

LinkPool ==
    {ZoomLink, ZoomHostedLink, TeamsLink, GoogleMeetLink, JoinLink, AgendaLink,
     WebexBareHost, RelativeHref, ZoomHref, PlainHref}

\* Texts with no phrase, "Click Here to Join", "join meeting",
\* "join the hearing" or "Please join the meeting".
ScannerPhrases ==
    {{}, {"click here to join"}, {"join meeting"}, {"join the hearing"},
     {"join the meeting"}}

ScannerContents ==
    {[PlainContent EXCEPT !.links = ls, !.phrases = ph] :
        ls \in SeqsUpTo(LinkPool, MaxLinks), ph \in ScannerPhrases}

InitScanner == CallInit("extractMeetingLinks", [emailContent : ScannerContents])

\* const extractedLink = extractMeetingLinks(emailContent)
CallExtractMeetingLinks ==
    /\ route = "extractMeetingLinks"
    /\ Return([link |-> ExtractMeetingLinks(args.emailContent), threw |-> FALSE])

SpecScanner == InitScanner /\ [][CallExtractMeetingLinks]_vars


\* enhanceLocation called on its own.
\* Names the inference may return: "CN Tower", "cn tower", "Union Station",
\* "THE KEG", "CN Tower Lobby", "Tower", "centre", "Eaton Centre Mall",
\* "Casa", "Starbucks", "e" and the empty string.
LocationNames ==
    {<<"C", "N", " ", "T", "o", "w", "e", "r">>,
     <<"c", "n", " ", "t", "o", "w", "e", "r">>,
     <<"U", "n", "i", "o", "n", " ", "S", "t", "a", "t", "i", "o", "n">>,
     <<"T", "H", "E", " ", "K", "E", "G">>,
     <<"C", "N", " ", "T", "o", "w", "e", "r", " ", "L", "o", "b", "b", "y">>,
     <<"T", "o", "w", "e", "r">>,
     <<"c", "e", "n", "t", "r", "e">>,
     <<"E", "a", "t", "o", "n", " ", "C", "e", "n", "t", "r", "e", " ", "M", "a", "l", "l">>,
     <<"C", "a", "s", "a">>,
     <<"S", "t", "a", "r", "b", "u", "c", "k", "s">>,
     <<"e">>,
     <<>>}

\* Values of the other fields as the inference returns them.
LocationDetailsSamples ==
    {NoLocationDetails}
    \cup {[name |-> n, address |-> a, city |-> c, state |-> "", country |-> "",
           isWellKnownPlace |-> w, room |-> r] :
            n \in LocationNames, a \in {"", "1 Main St"}, c \in {"", "Ottawa"},
            w \in BOOLEAN, r \in {"", "Room 4"}}

InitLocation == CallInit("enhanceLocation", [locationDetails : LocationDetailsSamples])

\* eventData.locationDetails = this.locationEnhancer.enhanceLocation(...)
CallEnhanceLocation ==
    /\ route = "enhanceLocation"
    /\ Return(EnhanceLocation(args.locationDetails))

SpecLocation == InitLocation /\ [][CallEnhanceLocation]_vars


(***************************************************************************)
(* generateIcsContent called on its own, on batches of validated records.  *)
(***************************************************************************)
Filler(n) == [i \in 1 .. n |-> "a"]

IcsTitles ==
    {<<>>, <<"Sync, weekly; all">>, <<"Sync", CR, LF, "END:VEVENT">>,
     <<"Sync", CR, LF, "SUMMARY:", "Other">>}

IcsDescriptions == {<<"Agenda", LF, "Notes">>, <<"Agenda", CR, LF, "Notes">>}

IcsTimezones == {<<"America/Toronto">>, <<"UTC", CR, LF, "BEGIN:VEVENT">>}

IcsLocationDetails ==
    {[name |-> <<"H", "Q">>, address |-> <<>>, city |-> <<"Y", "o", "r", "k">>,
      state |-> <<"O", "N">>, country |-> <<>>],
     [name |-> <<"H", "Q", ",", " ", "B">>, address |-> <<"1", " ", "M", "a", "i", "n", ";", LF, "N">>,
      city |-> <<"Y", "o", "r", "k">>, state |-> <<>>, country |-> <<>>],
     [name |-> <<>>, address |-> <<>>, city |-> <<>>, state |-> <<>>, country |-> <<>>]}

Ann == [name |-> <<"Ann Lee">>, email |-> <<"alee", "@", "example.org">>]

BobNoEmail == [name |-> <<"Bob Ray">>, email |-> <<>>]

CyNoName == [name |-> <<>>, email |-> <<"cy", "@", "example.org">>]

IcsAttendees ==
    {<<Ann>>, <<Ann, CyNoName>>, <<Ann, BobNoEmail>>, <<BobNoEmail, Ann>>,
     <<BobNoEmail>>, <<CyNoName, Ann, Ann>>}

PlainEvent ==
    [startDate |-> IsoDate(SampleStart), endDate |-> IsoDate(SampleEnd),
     title |-> <<"Sync">>, description |-> <<>>, location |-> <<>>,
     locationDetails |-> NoLocationDetails, timezone |-> <<>>, attendees |-> <<>>]

IcsEvents ==
    {PlainEvent,
     [PlainEvent EXCEPT !.startDate = IsoDate(MakeDate(2026, 1, 9, 8, 5, 7)),
                        !.endDate = IsoDate(MakeDate(2026, 12, 31, 23, 59, 59))],
     [PlainEvent EXCEPT !.location = <<"R", "m", " ", "4">>],
     [PlainEvent EXCEPT !.location = Filler(80) \o <<",", "b">>]}
    \cup {[PlainEvent EXCEPT !.title = t] : t \in IcsTitles}
    \cup {[PlainEvent EXCEPT !.description = d] : d \in IcsDescriptions}
    \cup {[PlainEvent EXCEPT !.timezone = z, !.attendees = a] :
            z \in IcsTimezones, a \in {<<>>, <<Ann>>}}
    \cup {[PlainEvent EXCEPT !.locationDetails = l, !.location = <<"R", "m", " ", "4">>] :
            l \in IcsLocationDetails}
    \cup {[PlainEvent EXCEPT !.attendees = a] : a \in IcsAttendees}

Uuids == {"1b9d6bcd", "9c3f2a10"}

IcsBatches == {b \in SeqsUpTo(IcsEvents, MaxEvents) : Len(b) >= 1}

InitIcs ==
    CallInit("generateIcsContent",
             {[events |-> b, uuids |-> u] : b \in IcsBatches, u \in {<<"1b9d6bcd", "9c3f2a10", "6ec0bd7f">>}})

\* const icsContent = this.generateIcsContent(eventData)
CallGenerateIcsContent ==
    /\ route = "generateIcsContent"
    /\ Return(GenerateIcsText([events |-> args.events], args.uuids, now))

SpecIcs == InitIcs /\ [][CallGenerateIcsContent]_vars

(***************************************************************************)
(* The LOCATION line of one event: escapedLocation, then foldLine.         *)
(***************************************************************************)
FillerLengths == {0, 1, 60, 64, 65, 66, 67, 139, 140, 141, 213, 215}

LocationHeads == {<<>>, <<Backslash, ",">>}

LocationTails ==
    {<<>>, <<",">>, <<";">>, <<Backslash>>, <<LF>>, <<Backslash, "n">>,
     <<Backslash, ";">>, <<",", " ", Backslash, LF, ";", "n">>,
     <<Backslash, Backslash, "n", LF>>}

LocationTexts ==
    {h \o Filler(n) \o t : h \in LocationHeads, n \in FillerLengths, t \in LocationTails}

InitLocationLine == CallInit("locationLine", [icsLocation : LocationTexts])

\* const escapedLocation = ...; const locationLine = foldLine(`LOCATION:${escapedLocation}`)
BuildLocationLine ==
    /\ route = "locationLine"
    /\ LET escapedLocation == EscapeLocation(args.icsLocation)
       IN  Return([escapedLocation |-> escapedLocation,
                   locationLine |-> FoldLine(LocationPrefix \o escapedLocation)])

SpecLocationLine == InitLocationLine /\ [][BuildLocationLine]_vars

(***************************************************************************)
(* The preparation of the dispatched text on its own.                      *)
(***************************************************************************)
\* Lengths of emailContent that validateEmailInput lets through (10 to 50000).
EmailLengths == {10, 100, 2000, 2500, 2501, 4000, 4999, 5000, 5001, 6000, 25000}

HtmlLengths == {0, 12, 121, 2401, 2500, 2501, 3100, 4999, 5000, 5001, 7000, 31000}

DispatchInputs ==
    [emailContent : {Run("text", n) : n \in EmailLengths},
     htmlContent : {NoHtml} \cup {Html(n) : n \in HtmlLengths},
     inputType : {"rich", "plain", "none"}]

InitDispatch == CallInit("contentForAI", DispatchInputs)

\* contentForAI = truncateContent(contentForAI, 5000), sent as the user message.
PrepareContent ==
    /\ route = "contentForAI"
    /\ LET contentForAI == ContentForAI(args.emailContent, args.htmlContent, args.inputType)
       IN  Return([contentForAI |-> contentForAI,
                   dispatched |-> TruncateContent(contentForAI, DispatchLimit)])

SpecDispatch == InitDispatch /\ [][PrepareContent]_vars

(***************************************************************************)
(* Requests handled concurrently by the one CalendarService: each handler  *)
(* runs to its awaited call, and the handlers resume in any order.  They   *)
(* share the LocationEnhancer's table.                                     *)
(***************************************************************************)
MaxRequests == 2

\* A record the inference returns with a location name.
LocatedEvent(name, start, end) ==
    [startDate |-> RawDate(start), endDate |-> RawDate(end),
     locationDetails |-> [name |-> name, address |-> "", city |-> "", state |-> "",
                          country |-> "", isWellKnownPlace |-> FALSE, room |-> "B2"]]

ConcurrentResults ==
    {APIError(500, "", ""), NoEventJson,
     ArrayJson(<<LocatedEvent(<<"C", "N", " ", "T", "o", "w", "e", "r">>,
                              SampleStart, SampleEnd)>>),
     ArrayJson(<<LocatedEvent(<<"T", "o", "w", "e", "r">>, SampleStart, SampleEnd),
                 LocatedEvent(<<"C", "a", "f", "e">>, SampleEnd, SampleEnd + SecPerHour)>>),
     ArrayJson(<<LocatedEvent(<<"C", "a", "s", "a", " ", "L", "o", "m", "a">>,
                              SampleEnd, SampleStart)>>)}

ConcurrentRequests ==
    {r \in ServiceRequests :
        /\ r.inputValid /\ r.userTimezone = "valid" /\ ~r.content.today
        /\ r.userCurrentTime # [kind |-> "ok", now |-> SampleNow]}

Session(request) ==
    [req |-> request, pc |-> "idle", aiResult |-> NoResult, outcome |-> NoOutcome]

InitConcurrent ==
    /\ route = "concurrent"
    /\ apiKey = TRUE
    /\ now = SampleNow
    /\ req = [inputValid |-> TRUE, userTimezone |-> "default",
              userCurrentTime |-> NoClientTime, content |-> PlainContent]
    /\ pc = "none"
    /\ calls = 0
    /\ aiResult = NoResult
    /\ logged = ""
    /\ outcome = NoOutcome
    /\ responses = 0
    /\ ev = NoRecord
    /\ text = PlainContent
    /\ cstep = "none"
    /\ runs = <<>>
    /\ args = NoArgs
    /\ returned = NotReturned
    /\ knownLocations = ConstructedLocations
    /\ sessions \in [1 .. MaxRequests -> {Session(r) : r \in ConcurrentRequests}]
    /\ IdlePage

\* Request r's handler throws while it builds the prompt.
ConcurrentPromptThrows(r) ==
    /\ route = "concurrent"
    /\ sessions[r].pc = "idle" /\ ~PromptBuilds(sessions[r].req)
    /\ sessions' = [sessions EXCEPT ![r] =
                       [@ EXCEPT !.outcome = ServiceInternalError, !.pc = "done"]]
    /\ UNCHANGED <<route, apiKey, now, requestVars, correctorVars, callVars,
                   knownLocations, clientVars>>

\* Request r's handler reaches its awaited call.
ConcurrentCall(r) ==
    /\ route = "concurrent"
    /\ sessions[r].pc = "idle" /\ PromptBuilds(sessions[r].req)
    /\ sessions' = [sessions EXCEPT ![r] = [@ EXCEPT !.pc = "awaiting"]]
    /\ UNCHANGED <<route, apiKey, now, requestVars, correctorVars, callVars,
                   knownLocations, clientVars>>

\* this.knownLocations[key.toLowerCase()] = locationData: the entry of that
\* key is replaced, or a new one is added at the end.
AddLocation(key, locationData) ==
    IF \E i \in 1 .. Len(knownLocations) : knownLocations[i].key = ToLowerCase(key)
    THEN [i \in 1 .. Len(knownLocations) |->
             IF knownLocations[i].key = ToLowerCase(key)
             THEN [key |-> ToLowerCase(key), data |-> locationData]
             ELSE knownLocations[i]]
    ELSE Append(knownLocations, [key |-> ToLowerCase(key), data |-> locationData])

\* Mutant of ConcurrentComplete: the handler stores the first location the
\* inference returned in the shared table (addLocation).
ConcurrentCompleteLearning(r) ==
    /\ route = "concurrent"
    /\ sessions[r].pc = "awaiting"
    /\ \E res \in ConcurrentResults :
          /\ sessions' = [sessions EXCEPT ![r] =
                             [@ EXCEPT !.aiResult = res,
                                       !.outcome = ServiceOutcome(sessions[r].req, res),
                                       !.pc = "done"]]
          /\ knownLocations' =
                IF res.events # <<>>
                THEN AddLocation(res.events[1].locationDetails.name,
                                 [res.events[1].locationDetails EXCEPT !.address = "learned"])
                ELSE knownLocations
    /\ UNCHANGED <<route, apiKey, now, requestVars, correctorVars, callVars, clientVars>>

\* Request r's awaited call settles and its handler runs to its response:
\* parseContentWithAI (with enhanceLocation, which reads the table),
\* generateIcsContent, res.json.
ConcurrentComplete(r) ==
    /\ route = "concurrent"
    /\ sessions[r].pc = "awaiting"
    /\ \E res \in ConcurrentResults :
          sessions' = [sessions EXCEPT ![r] =
                          [@ EXCEPT !.aiResult = res,
                                    !.outcome = ServiceOutcome(sessions[r].req, res),
                                    !.pc = "done"]]
    /\ UNCHANGED <<route, apiKey, now, requestVars, correctorVars, callVars,
                   knownLocations, clientVars>>

NextConcurrent ==
    \E r \in 1 .. MaxRequests :
        ConcurrentPromptThrows(r) \/ ConcurrentCall(r) \/ ConcurrentComplete(r)

SpecConcurrent == InitConcurrent /\ [][NextConcurrent]_vars

(***************************************************************************)
(* The page (src/public/script.js): the extract button, the requests it    *)
(* starts and the calendar document it stores.  Requests are numbered in   *)
(* the order they are started.                                             *)
(***************************************************************************)
MaxStarted == 3

MinCount == 10

MaxCount == 50000

\* Texts of the active input: their length and their length once trimmed.
PageTexts ==
    {[length |-> 0, trimmed |-> 0], [length |-> 9, trimmed |-> 9],
     [length |-> 12, trimmed |-> 8], [length |-> 10, trimmed |-> 10],
     [length |-> 500, trimmed |-> 498], [length |-> 50000, trimmed |-> 50000],
     [length |-> 50001, trimmed |-> 50001]}

\* The page after DOMContentLoaded: updateCharacterCount() on empty inputs.
InitPage ==
    /\ route = "page"
    /\ apiKey = TRUE
    /\ now = SampleNow
    /\ req = [inputValid |-> TRUE, userTimezone |-> "default",
              userCurrentTime |-> NoClientTime, content |-> PlainContent]
    /\ pc = "none"
    /\ calls = 0
    /\ aiResult = NoResult
    /\ logged = ""
    /\ outcome = NoOutcome
    /\ responses = 0
    /\ ev = NoRecord
    /\ text = PlainContent
    /\ cstep = "none"
    /\ runs = <<>>
    /\ args = NoArgs
    /\ returned = NotReturned
    /\ IdleServer
    /\ IdlePage

\* updateCharacterCount(), as run by an input or paste event, a tab switch,
\* a file upload or the clear button, on the text the event leaves.
UpdateCharacterCount ==
    /\ route = "page"
    /\ \E t \in PageTexts :
          /\ contentText' = t
          /\ extractBtnDisabled' = (t.length < MinCount \/ t.length > MaxCount)
    /\ UNCHANGED <<route, apiKey, now, requestVars, correctorVars, callVars,
                   concurrentVars, inflight, started, currentIcsContent>>

\* setLoadingState(isLoading)
SetLoadingState(isLoading) == extractBtnDisabled' = isLoading

\* The click handler of extractBtn up to its awaited fetch: a text whose
\* trimmed length is out of range shows an error, any other starts a request.
ExtractClicked ==
    /\ started < MaxStarted
    /\ IF contentText.trimmed < MinCount \/ contentText.trimmed > MaxCount
       THEN UNCHANGED <<extractBtnDisabled, inflight, started>>
       ELSE /\ SetLoadingState(TRUE)
            /\ started' = started + 1
            /\ inflight' = inflight \cup {started + 1}
    /\ UNCHANGED <<route, apiKey, now, requestVars, correctorVars, callVars,
                   concurrentVars, contentText, currentIcsContent>>

\* The user clicks the button: a disabled button dispatches no click.
ClickExtract ==
    /\ route = "page"
    /\ ~extractBtnDisabled
    /\ ExtractClicked

\* Ctrl/Cmd + Enter in an input: if (!extractBtn.disabled) extractBtn.click()
KeyboardShortcut ==
    /\ route = "page"
    /\ \E modifier \in {"ctrlKey", "metaKey"} :
          /\ ~extractBtnDisabled
          /\ ExtractClicked

\* Request r is answered with a calendar document: it is stored, the results
\* are shown, and the finally clause ends the loading state.
ResponseStored(r) ==
    /\ route = "page"
    /\ r \in inflight
    /\ currentIcsContent' = r
    /\ SetLoadingState(FALSE)
    /\ inflight' = inflight \ {r}
    /\ UNCHANGED <<route, apiKey, now, requestVars, correctorVars, callVars,
                   concurrentVars, contentText, started>>

\* Request r fails (the fetch throws or the response is not ok): the error
\* is shown and the finally clause ends the loading state.
ResponseFailed(r) ==
    /\ route = "page"
    /\ r \in inflight
    /\ SetLoadingState(FALSE)
    /\ inflight' = inflight \ {r}
    /\ UNCHANGED <<route, apiKey, now, requestVars, correctorVars, callVars,
                   concurrentVars, contentText, started, currentIcsContent>>

NextPage ==
    \/ UpdateCharacterCount
    \/ ClickExtract
    \/ KeyboardShortcut
    \/ \E r \in 1 .. MaxStarted : ResponseStored(r) \/ ResponseFailed(r)

SpecPage == InitPage /\ [][NextPage]_vars

(***************************************************************************)
(* Properties                                                              *)
(***************************************************************************)

\* Vocabulary of the properties: what a date string and a record are.
Parseable(dateStr) == dateStr.kind \in {"raw", "iso"}

Present(dateStr) == dateStr.kind # "absent"

WellFormed(e) ==
    Parseable(e.startDate) /\ Parseable(e.endDate) /\ e.endDate.t > e.startDate.t

Misordered(e) ==
    Parseable(e.startDate) /\ Parseable(e.endDate) /\ e.endDate.t <= e.startDate.t

Normalized(e) ==
    [e EXCEPT !.startDate = [kind |-> "iso", t |-> e.startDate.t],
              !.endDate = [kind |-> "iso", t |-> e.endDate.t]]

\* The CalendarService request got a JSON answer with hasEvent = true.
ServiceAnswered ==
    pc = "done" /\ route = "service" /\ aiResult.kind = "json" /\ aiResult.hasEvent

\* The index of the first element of the answer that is not well formed
\* (0 when every element is).
FirstIllFormed ==
    IF \A i \in 1 .. Len(aiResult.events) : WellFormed(aiResult.events[i]) THEN 0
    ELSE CHOOSE i \in 1 .. Len(aiResult.events) :
            /\ ~WellFormed(aiResult.events[i])
            /\ \A j \in 1 .. (i - 1) : WellFormed(aiResult.events[j])

InternalErrorText == "Failed to extract calendar event due to an internal error."

\* C1: when the inference service returns hasEvent=true with a single flat
\* event whose dates are present, parseable and ordered, the request succeeds
\* with the one-element batch {hasEvent: true, events: [thatEvent]}.
C1_FlatEventWrapped ==
    (ServiceAnswered /\ aiResult.shape = "flat" /\ WellFormed(aiResult.events[1]))
    => /\ outcome.status = 200
       /\ outcome.eventData.hasEvent
       /\ outcome.eventData.events = <<Normalized(aiResult.events[1])>>

\* C2: for an answer carrying an events array, either a batch is returned in
\* which every element passed validation (both dates present, parseable, end
\* strictly after start), with its calendar document, or the request fails as
\* a whole with a single error and no calendar document; a batch never holds
\* an element that failed validation.
C2_BatchAllOrNothing ==
    (ServiceAnswered /\ aiResult.shape = "array")
    => IF \A i \in 1 .. Len(aiResult.events) : WellFormed(aiResult.events[i])
       THEN /\ outcome.status = 200
            /\ outcome.eventData.events =
                 [i \in 1 .. Len(aiResult.events) |-> Normalized(aiResult.events[i])]
            /\ outcome.icsContent.present
            /\ Len(outcome.icsContent.vevents) = Len(aiResult.events)
       ELSE /\ outcome.status = 500
            /\ outcome.error = InternalErrorText
            /\ outcome.eventData.events = <<>>
            /\ ~outcome.icsContent.present
            /\ responses = 1

\* C2 witness: a two-element answer whose first element is valid and whose
\* second is not has been handled.
C2_Witness ==
    /\ ServiceAnswered /\ aiResult.shape = "array"
    /\ Len(aiResult.events) = 2
    /\ WellFormed(aiResult.events[1])
    /\ ~WellFormed(aiResult.events[2])

\* C3: a record whose dates are present and parseable but with
\* endDate <= startDate fails validation with the ordering error, and the
\* request returns no calendar document.
C3_OrderingRejected ==
    (ServiceAnswered /\ \E i \in 1 .. Len(aiResult.events) : Misordered(aiResult.events[i]))
    => /\ outcome.status # 200
       /\ ~outcome.icsContent.present
       /\ \A i \in 1 .. Len(aiResult.events) :
             Misordered(aiResult.events[i])
             => /\ ~ValidateAndNormalizeSingleEvent(aiResult.events[i]).ok
                /\ ValidateAndNormalizeSingleEvent(aiResult.events[i]).error
                     = "Date validation failed: End date must be after start date"
       /\ Misordered(aiResult.events[FirstIllFormed])
             => logged = "Date validation failed: End date must be after start date"

\* C3 witness: an answer whose only record starts and ends at the same
\* instant has been handled.
C3_Witness ==
    /\ ServiceAnswered
    /\ Len(aiResult.events) = 1
    /\ Parseable(aiResult.events[1].startDate)
    /\ Parseable(aiResult.events[1].endDate)
    /\ aiResult.events[1].endDate.t = aiResult.events[1].startDate.t

\* The error the validator must raise for record e ("" when it must succeed).
ExpectedValidationError(e) ==
    IF ~Present(e.startDate) \/ ~Present(e.endDate)
    THEN "Missing required date information"
    ELSE IF ~Parseable(e.startDate) \/ ~Parseable(e.endDate)
    THEN "Date validation failed: Invalid date format received from AI"
    ELSE IF e.endDate.t <= e.startDate.t
    THEN "Date validation failed: End date must be after start date"
    ELSE ""

\* C4: validateAndNormalizeSingleEvent fails with the missing-date error when
\* a date is absent, otherwise with the malformed-date error when a date
\* does not parse, otherwise with the ordering error when endDate <= startDate,
\* and otherwise returns the record with both dates normalized; the caller
\* (whose catch clause logs the error) sees three different errors.
C4_ValidationKinds ==
    ServiceAnswered
    => /\ \A i \in 1 .. Len(aiResult.events) :
             LET e == aiResult.events[i]
                 r == ValidateAndNormalizeSingleEvent(e)
             IN  IF ExpectedValidationError(e) = ""
                 THEN r.ok /\ r.value = Normalized(e)
                 ELSE ~r.ok /\ r.error = ExpectedValidationError(e)
       /\ FirstIllFormed # 0
             => logged = ExpectedValidationError(aiResult.events[FirstIllFormed])
       /\ (FirstIllFormed = 0 /\ aiResult.shape = "array")
             => \A i \in 1 .. Len(aiResult.events) :
                   outcome.eventData.events[i] = Normalized(aiResult.events[i])

\* C4 witness: an answer whose first record lacks a date and whose second
\* has an unparseable one has been handled.
C4_Witness ==
    /\ ServiceAnswered
    /\ Len(aiResult.events) = 2
    /\ ~Present(aiResult.events[1].endDate)
    /\ Present(aiResult.events[2].startDate)
    /\ ~Parseable(aiResult.events[2].startDate)
    /\ logged = "Missing required date information"

\* C5: a request that fails because an event's dates are missing, malformed
\* or misordered ends in an outcome that differs from the outcome of a
\* request whose call to the inference service failed.
C5_ValidationFailureDistinct ==
    (ServiceAnswered /\ FirstIllFormed # 0)
    => \A err \in InferenceErrors : outcome # ServiceOutcome(req, err)

\* The answer parsed to an object with hasEvent = false (the first server
\* strips a markdown fence before parsing, the CalendarService does not).
NoEventAnswered ==
    /\ pc = "done"
    /\ ~aiResult.hasEvent
    /\ \/ aiResult.kind = "json"
       \/ route = "legacy" /\ aiResult.kind = "fenced"

NoEventTexts ==
    {"No calendar event could be found in the provided content.",
     "No calendar event information found in the email content"}

\* C6: when the answer has hasEvent=false, nothing is validated or corrected
\* (whatever else the answer carries), no calendar document is generated, no
\* second call is made, and the request ends in the no-event outcome; no
\* other request ends in that outcome.
C6_NoEventOutcome ==
    /\ NoEventAnswered
       => /\ outcome.status = 400
          /\ outcome.error \in NoEventTexts
          /\ ~outcome.icsContent.present
          /\ outcome.eventData.events = <<>>
          /\ outcome.warnings = <<>>
          /\ logged = ""
          /\ calls = 1
          /\ responses = 1
    /\ (pc = "done" /\ ~NoEventAnswered) => outcome.error \notin NoEventTexts

\* C6 witness: a hasEvent=false answer that still carries a record without
\* dates has been handled by the CalendarService.
C6_Witness ==
    /\ NoEventAnswered
    /\ route = "service"
    /\ aiResult.events # <<>>

\* C7: every request issues at most one call to the inference service, and
\* exactly one when input validation passes and the API key is configured;
\* the request ends with exactly one outcome.
C7_ExactlyOneCall ==
    /\ calls <= 1
    /\ pc = "done" => responses = 1
    /\ (pc = "done" /\ req.inputValid /\ apiKey) => calls = 1


\* The runs of the corrector that are complete (both corrections applied).
CompleteRuns == {i \in 1 .. Len(runs) : runs[i].complete}

\* C8: applying correctTimeExtraction and correctEventYear a second time
\* with the same source text and clock changes neither startDate nor endDate
\* and reports no correction.
C8_SecondApplicationIdle ==
    2 \in CompleteRuns
    => /\ runs[2].after.startDate = runs[2].before.startDate
       /\ runs[2].after.endDate = runs[2].before.endDate
       /\ ~runs[2].timeCorrected
       /\ ~runs[2].yearCorrected

\* The floor year: max(2025, the clock's year).
FloorYear == IF YearFromTime(now) > 2025 THEN YearFromTime(now) ELSE 2025

SameTimeOfDay(t1, t2) ==
    HourFromTime(t1) = HourFromTime(t2) /\ MinFromTime(t1) = MinFromTime(t2)

SameMonthAndDay(t1, t2) ==
    MonthFromTime(t1) = MonthFromTime(t2) /\ DateFromTime(t1) = DateFromTime(t2)

IsLeapDay(t) == MonthFromTime(t) = 2 /\ DateFromTime(t) = 29

\* C9, as stated: for a record whose start year is below the floor,
\* correctEventYear sets the year of both dates to the floor, leaves month,
\* day, hour and minute of both unchanged and reports corrected=true with one
\* note; for a record at or above the floor it changes nothing and reports
\* corrected=false.
C9_YearFloorKeepsMonthAndDay ==
    \A i \in CompleteRuns :
        LET b == runs[i].afterTime
            a == runs[i].after
        IN  IF YearFromTime(b.startDate.t) < FloorYear
            THEN /\ YearFromTime(a.startDate.t) = FloorYear
                 /\ YearFromTime(a.endDate.t) = FloorYear
                 /\ SameTimeOfDay(a.startDate.t, b.startDate.t)
                 /\ SameTimeOfDay(a.endDate.t, b.endDate.t)
                 /\ SameMonthAndDay(a.startDate.t, b.startDate.t)
                 /\ SameMonthAndDay(a.endDate.t, b.endDate.t)
                 /\ runs[i].yearCorrected
                 /\ Len(runs[i].yearWarnings) = 1
            ELSE a = b /\ ~runs[i].yearCorrected

\* Month and day are kept, except that 29 February becomes 1 March when the
\* floor year is not a leap year.
MonthAndDayCarried(before, after) ==
    IF IsLeapDay(before) /\ ~IsLeapYear(FloorYear)
    THEN MonthFromTime(after) = 3 /\ DateFromTime(after) = 1
    ELSE SameMonthAndDay(before, after)

\* C9, amended: as stated, except that a date on 29 February becomes 1 March
\* of the floor year when the floor year is not a leap year.
C9_YearFloor ==
    \A i \in CompleteRuns :
        LET b == runs[i].afterTime
            a == runs[i].after
        IN  IF YearFromTime(b.startDate.t) < FloorYear
            THEN /\ YearFromTime(a.startDate.t) = FloorYear
                 /\ YearFromTime(a.endDate.t) = FloorYear
                 /\ SameTimeOfDay(a.startDate.t, b.startDate.t)
                 /\ SameTimeOfDay(a.endDate.t, b.endDate.t)
                 /\ MonthAndDayCarried(b.startDate.t, a.startDate.t)
                 /\ MonthAndDayCarried(b.endDate.t, a.endDate.t)
                 /\ runs[i].yearCorrected
                 /\ Len(runs[i].yearWarnings) = 1
            ELSE a = b /\ ~runs[i].yearCorrected

\* C9 witness: a record starting on 29 February 2024 has had its year
\* corrected to a floor that is not a leap year.
C9_Witness ==
    \E i \in CompleteRuns :
        /\ IsLeapDay(runs[i].afterTime.startDate.t)
        /\ YearFromTime(runs[i].afterTime.startDate.t) < FloorYear
        /\ ~IsLeapYear(FloorYear)
        /\ runs[i].yearCorrected

\* The phrase names a time of day on a 12-hour clock.
ClockTime(tp) == tp.present /\ tp.hour \in 1 .. 12 /\ tp.minute \in 0 .. 59

\* The hour the phrase names, on a 24-hour clock.
PhraseHour(tp) == (tp.hour % 12) + (IF tp.pm THEN 12 ELSE 0)

\* C10: whenever the source text contains a time phrase and the record's
\* start hour differs from the parsed hour, or its start minute differs from
\* the parsed minute by more than 5, the start hour and minute are
\* overwritten with the parsed values and endDate is set to exactly one hour
\* after the new startDate; when they agree within the tolerance, startDate
\* and endDate are left unchanged.
C10_TimeOverwrittenBeyondTolerance ==
    \A i \in 1 .. Len(runs) :
        LET b == runs[i].before
            a == runs[i].afterTime
            gap == MinFromTime(b.startDate.t) - text.time.minute
        IN  ClockTime(text.time)
            => IF HourFromTime(b.startDate.t) # PhraseHour(text.time)
                  \/ gap > 5 \/ gap < -5
               THEN /\ HourFromTime(a.startDate.t) = PhraseHour(text.time)
                    /\ MinFromTime(a.startDate.t) = text.time.minute
                    /\ a.endDate.t = a.startDate.t + 60 * 60
               ELSE a = b


\* C11: for every time phrase the pattern captures, the converted hour is a
\* valid 24-hour value in 0..23 and obeys 12am -> 0, 12pm -> 12, pm adds 12
\* except for 12, am otherwise unchanged.
C11_ConvertedHourValid ==
    (route = "timePhrase" /\ returned.done)
    => /\ returned.value.hour \in 0 .. 23
       /\ returned.value.hour =
             (IF args.hour = 12 THEN (IF args.pm THEN 12 ELSE 0)
              ELSE IF args.pm THEN args.hour + 12 ELSE args.hour)


\* The elements of a sequence.
Range(seq) == {seq[i] : i \in 1 .. Len(seq)}

\* referenceNow: the client's current time when the request carries one, the
\* server's clock otherwise.
ReferenceNow == IF req.userCurrentTime.kind = "ok" THEN req.userCurrentTime.now ELSE now

\* Some event of the batch starts on another calendar date than the one
\* `days` days after referenceNow.
StartsOffDate(events, days) ==
    \E i \in 1 .. Len(events) :
        Day(events[i].startDate.t) # Day(ReferenceNow) + days

\* C12: a successful batch carries the 'tomorrow' (respectively 'today')
\* warning if and only if the source text contains that word and the inferred
\* start's calendar date differs from referenceNow + 1 day (respectively + 0
\* days), compared by date only; the check modifies no startDate or endDate.
C12_RelativeDateWarnings ==
    (ServiceAnswered /\ outcome.status = 200 /\ outcome.eventData.events # <<>>)
    => LET events == outcome.eventData.events
           warnings == Range(outcome.eventData.warnings)
       IN  /\ TomorrowWarning \in warnings
                <=> (req.content.tomorrow /\ StartsOffDate(events, 1))
           /\ TodayWarning \in warnings
                <=> (req.content.today /\ StartsOffDate(events, 0))
           /\ \A i \in 1 .. Len(events) : events[i] = Normalized(aiResult.events[i])


\* validateEventData was called on its own and has returned.
Validated == route = "validateEventData" /\ returned.done

\* The warnings of one kind among those returned.
WarningsOfKind(kind) ==
    LET ofKind(w) == w.kind = kind
    IN  SelectSeq(returned.value.warnings, ofKind)

\* C13: validateEventData emits a weekday warning naming both weekdays when
\* the source text names a weekday that differs from the weekday of the
\* inferred start date, none when every weekday the text names is the start
\* date's weekday, and at most one weekday warning per call.
C13_WeekdayWarning ==
    Validated
    => LET startDate == args.eventData.startDate
           named == args.originalEmail.weekdays
           found == WarningsOfKind("weekday")
       IN  /\ Len(found) <= 1
           /\ Parseable(startDate)
              => IF \E d \in named : d # WeekDay(startDate.t)
                 THEN /\ Len(found) = 1
                      /\ found[1].a \in named
                      /\ found[1].a # WeekDay(startDate.t)
                      /\ found[1].b = WeekDay(startDate.t)
                 ELSE found = <<>>

\* C13 witness: the text names Tuesday and Wednesday, the start date is a
\* Tuesday, and the one weekday warning names Wednesday and Tuesday.
C13_Witness ==
    /\ Validated
    /\ args.originalEmail.weekdays = {2, 3}
    /\ Parseable(args.eventData.startDate)
    /\ WeekDay(args.eventData.startDate.t) = 2
    /\ Len(WarningsOfKind("weekday")) = 1
    /\ WarningsOfKind("weekday")[1].a = 3

\* The instant two years after t: the same date and time of day two
\* calendar years later (1 March for 29 February).
TwoYearsAfter(t) ==
    MakeDate(YearFromTime(t) + 2, MonthFromTime(t), DateFromTime(t),
             HourFromTime(t), MinFromTime(t), SecFromTime(t))

\* C14: validateEventData never fails and never modifies the record; the
\* warnings it returns contain the past-date warning exactly when startDate
\* is more than 7 days before now, the far-future warning exactly when
\* startDate is more than 2 years after now, and the ordering warning exactly
\* when endDate <= startDate.
C14_ValidatorWarnings ==
    Validated
    => LET startDate == args.eventData.startDate
           endDate == args.eventData.endDate
       IN  /\ ~returned.value.threw
           /\ returned.value.eventData = args.eventData
           /\ WarningsOfKind("past") # <<>>
                <=> (Parseable(startDate)
                     /\ args.now - startDate.t > 7 * 24 * 60 * 60)
           /\ WarningsOfKind("farFuture") # <<>>
                <=> (Parseable(startDate) /\ startDate.t > TwoYearsAfter(args.now))
           /\ WarningsOfKind("endBeforeStart") # <<>>
                <=> (Parseable(startDate) /\ Parseable(endDate)
                     /\ endDate.t <= startDate.t)

\* C14 witness: a record that starts more than 7 days before now and ends
\* when it starts got the past-date and the ordering warning.
C14_Witness ==
    /\ Validated
    /\ Parseable(args.eventData.startDate)
    /\ args.eventData.endDate = IsoDate(args.eventData.startDate.t)
    /\ args.now - args.eventData.startDate.t > 7 * 24 * 60 * 60
    /\ WarningsOfKind("past") # <<>>
    /\ WarningsOfKind("endBeforeStart") # <<>>


\* The first server answered a request whose inference produced a record.
LegacyAnswered ==
    pc = "done" /\ route = "legacy" /\ aiResult.kind = "json" /\ aiResult.hasEvent

\* C15: for the source text "Meeting tomorrow at 2pm, join via
\* https://zoom.us/j/123" and an inferred record without a meeting link, the
\* pipeline yields meetingLink = "https://zoom.us/j/123" and a start time
\* whose hour is 14 and minute 0.
C15_MeetingTomorrowScenario ==
    (/\ LegacyAnswered
     /\ req.content = MeetingTomorrowText
     /\ aiResult.events[1].meetingLink = NoLink
     /\ Parseable(aiResult.events[1].startDate))
    => /\ outcome.status = 200
       /\ outcome.eventData.meetingLink = "https://zoom.us/j/123"
       /\ HourFromTime(outcome.eventData.startDate.t) = 14
       /\ MinFromTime(outcome.eventData.startDate.t) = 0


\* The URLs of the text that satisfy a test.
UrlsOf(content, Test(_)) ==
    {content.links[i].url : i \in {j \in 1 .. Len(content.links) : Test(content.links[j])}}

\* A URL on one of the conferencing domains.
ProviderUrl(u) ==
    u.http /\ \E p \in 1 .. Len(ProviderDomains) : u.domain = ProviderDomains[p]

\* A URL containing one of the general keywords.
KeywordUrl(u) ==
    u.http /\ u.words \cap {"meeting", "join", "conference", "call", "hearing", "teams"} # {}

\* An anchor whose target contains a keyword.
KeywordAnchor(u) == u.href /\ u.words # {}

\* Join-intent phrases.
JoinIntent ==
    {"click here to join", "join the meeting", "join the hearing", "join meeting"}

\* C16: extractMeetingLinks never throws and returns the first match in
\* priority order: a provider-specific URL if any exists, else a generic
\* keyword URL, else a keyword-bearing anchor target; only when none exists
\* it returns the sentinel, exactly when the text contains a join-intent
\* phrase such as "click here to join" or "join the meeting"; otherwise it
\* returns absent.
C16_ScannerPriority ==
    (route = "extractMeetingLinks" /\ returned.done)
    => LET content == args.emailContent
           link == returned.value.link
       IN  /\ ~returned.value.threw
           /\ IF UrlsOf(content, ProviderUrl) # {}
              THEN link \in UrlsOf(content, ProviderUrl)
              ELSE IF UrlsOf(content, KeywordUrl) # {}
              THEN link \in UrlsOf(content, KeywordUrl)
              ELSE IF UrlsOf(content, KeywordAnchor) # {}
              THEN link \in UrlsOf(content, KeywordAnchor)
              ELSE IF content.phrases \cap JoinIntent # {}
              THEN link = LinkSentinel
              ELSE link = NoLink


\* C17, as stated: when the inferred record already carries a non-empty
\* meetingLink the pipeline leaves it unchanged, and when it carries none the
\* record's meetingLink after the step equals exactly what the scanner
\* returned (link, sentinel, or absent).
C17_ScannerResultOnly ==
    (LegacyAnswered /\ outcome.status = 200)
    => LET before == aiResult.events[1].meetingLink
           after == outcome.eventData.meetingLink
       IN  IF before # NoLink THEN after = before
           ELSE after = ExtractMeetingLinks(req.content)

\* The lowercased text contains one of the handler's meeting indicators.
NamesMeetingIndicator(content) ==
    \E s \in {"click here to join", "join the hearing", "teams", "zoom",
              "virtual hearing"} :
        \/ s \in content.phrases
        \/ \E i \in 1 .. Len(content.links) : s \in content.links[i].words

\* C17, amended: a meetingLink other than empty and the string 'null' is left
\* unchanged; otherwise the meetingLink after the step is what the scanner
\* returned when that is a link or the sentinel, and when the scanner
\* returned absent it is the sentinel if the text contains one of the
\* handler's meeting indicators and is left as it was if not.
C17_LinkFallback ==
    (LegacyAnswered /\ outcome.status = 200)
    => LET before == aiResult.events[1].meetingLink
           after == outcome.eventData.meetingLink
           scanned == ExtractMeetingLinks(req.content)
       IN  IF before \notin {NoLink, "null"} THEN after = before
           ELSE IF scanned # NoLink THEN after = scanned
           ELSE IF NamesMeetingIndicator(req.content) THEN after = LinkSentinel
           ELSE after = before

\* C17 witness: a record without a meeting link, a text in which the scanner
\* finds nothing but which names a meeting indicator, and the sentinel as the
\* record's meetingLink after the step.
C17_Witness ==
    /\ LegacyAnswered /\ outcome.status = 200
    /\ aiResult.events[1].meetingLink = NoLink
    /\ ExtractMeetingLinks(req.content) = NoLink
    /\ outcome.eventData.meetingLink = LinkSentinel


\* enhanceLocation was called on its own, with a named location, and returned.
EnhancedNamed ==
    /\ route = "enhanceLocation" /\ returned.done
    /\ args.locationDetails # NoLocationDetails
    /\ args.locationDetails.name # <<>>

\* The fields an overlay may change.
OverlaidFields == {"address", "city", "state", "country", "isWellKnownPlace"}

\* C18: for every input locationDetails with a name, the output of
\* enhanceLocation has the same name as the input (on exact match, partial
\* match and miss alike); only address, city, state, country and
\* isWellKnownPlace may differ from the input.
C18_NamePreserved ==
    EnhancedNamed
    => /\ returned.value.name = args.locationDetails.name
       /\ DOMAIN returned.value = DOMAIN args.locationDetails
       /\ \A f \in DOMAIN args.locationDetails \ OverlaidFields :
              returned.value[f] = args.locationDetails[f]

\* The output carries the overlaid fields of table entry i.
OverlaysEntry(i) ==
    \A f \in OverlaidFields : returned.value[f] = knownLocations[i].data[f]

\* C19: enhanceLocation overlays the table entry whose key equals the
\* lowercased name when one exists (name "CN Tower" yields address
\* "290 Bremner Blvd, Toronto, ON M5V 3L9" and isWellKnownPlace = true);
\* otherwise the first table entry, in table order, whose key contains the
\* lowercased name or is contained in it; when no key matches, or the name is
\* absent, it returns the input unchanged.
C19_TableLookup ==
    (route = "enhanceLocation" /\ returned.done)
    => IF ~EnhancedNamed THEN returned.value = args.locationDetails
       ELSE LET key == ToLowerCase(args.locationDetails.name)
                table == 1 .. Len(knownLocations)
                matches(i) == \/ Includes(key, knownLocations[i].key)
                              \/ Includes(knownLocations[i].key, key)
            IN  /\ IF \E i \in table : knownLocations[i].key = key
                   THEN \E i \in table : knownLocations[i].key = key /\ OverlaysEntry(i)
                   ELSE IF \E i \in table : matches(i)
                   THEN \E i \in table :
                           /\ matches(i) /\ \A j \in 1 .. (i - 1) : ~matches(j)
                           /\ OverlaysEntry(i)
                   ELSE returned.value = args.locationDetails
                /\ args.locationDetails.name = <<"C", "N", " ", "T", "o", "w", "e", "r">>
                   => /\ returned.value.address = "290 Bremner Blvd, Toronto, ON M5V 3L9"
                      /\ returned.value.isWellKnownPlace = TRUE

\* C19 witness: the name "centre", contained in the keys of three entries,
\* got the address of the first of them, the Rogers Centre.
C19_Witness ==
    /\ EnhancedNamed
    /\ args.locationDetails.name = <<"c", "e", "n", "t", "r", "e">>
    /\ returned.value.address = "1 Blue Jays Way, Toronto, ON M5V 1J1"


\* C20: a request that ends in the success outcome always carries a batch of
\* at least one event record, and its calendar document contains at least
\* one event block.
C20_SuccessHasEvent ==
    (pc = "done" /\ route = "service" /\ outcome.status = 200)
    => /\ Len(outcome.eventData.events) >= 1
       /\ outcome.icsContent.present
       /\ Len(outcome.icsContent.vevents) >= 1


\* The positions of a sequence that satisfy a test, in ascending order.
Positions(s, Test(_)) == SelectSeq([i \in 1 .. Len(s) |-> i], Test)

\* The physical lines of a text: what stands between its CRLF pairs.
PhysicalLines(s) ==
    LET Split(breaks) ==
            [k \in 1 .. (Len(breaks) + 1) |->
                SubSeq(s, IF k = 1 THEN 1 ELSE breaks[k - 1] + 2,
                          IF k = Len(breaks) + 1 THEN Len(s) ELSE breaks[k] - 1)]
    IN  CHOOSE lines \in
            {Split(breaks) :
                breaks \in {Positions(s, LAMBDA i :
                                i < Len(s) /\ s[i] = CR /\ s[i + 1] = LF)}} : TRUE

\* The positions of the lines that begin with the given piece.
LinesNamed(lines, name) == {i \in 1 .. Len(lines) : lines[i] # <<>> /\ lines[i][1] = name}

\* YYYYMMDDTHHMMSSZ
CompactForm(value) ==
    /\ Len(value) = 16
    /\ \A i \in (1 .. 8) \cup (10 .. 15) : \E d \in 1 .. 10 : value[i] = Digits[d]
    /\ value[9] = "T"
    /\ value[16] = "Z"

\* The event blocks are properly nested, one per element, and block k holds
\* exactly one line of each required property.
ProperBlocks(lines, n) ==
    \E begins \in {Positions(lines, LAMBDA i : lines[i] = <<"BEGIN:VEVENT">>)} :
    \E ends \in {Positions(lines, LAMBDA i : lines[i] = <<"END:VEVENT">>)} :
        /\ Len(begins) = n
        /\ Len(ends) = n
        /\ \A k \in 1 .. n :
              /\ begins[k] < ends[k]
              /\ k < n => ends[k] < begins[k + 1]
              /\ \A name \in {"UID:", "DTSTAMP:", "DTSTART:", "DTEND:", "SUMMARY:"} :
                    Cardinality({i \in LinesNamed(lines, name) :
                                    begins[k] < i /\ i < ends[k]}) = 1
        /\ \A i \in LinesNamed(lines, "DTSTART:") \cup LinesNamed(lines, "DTEND:") :
              CompactForm(Tail(lines[i]))

\* C21: for every batch of validated records and every value of their text
\* fields, the document starts with BEGIN:VCALENDAR, ends with END:VCALENDAR,
\* holds one properly nested VEVENT block per element, and each block holds
\* exactly one UID, DTSTAMP, DTSTART, DTEND and SUMMARY line, the two dates in
\* the form YYYYMMDDTHHMMSSZ.
C21_DocumentStructure ==
    (route = "generateIcsContent" /\ returned.done) =>
        \E lines \in {PhysicalLines(returned.value)} :
            /\ lines[1] = <<"BEGIN:VCALENDAR">>
            /\ lines[Len(lines)] = <<"END:VCALENDAR">>
            /\ ProperBlocks(lines, Len(args.events))

\* The records whose text fields hold no line break.
SingleLineText(event) ==
    /\ \A f \in {"title", "timezone"} : ~ \E i \in 1 .. Len(event[f]) : event[f][i] \in {CR, LF}
    /\ \A i \in 1 .. Len(event.attendees) : \A f \in {"name", "email"} :
          ~ \E j \in 1 .. Len(event.attendees[i][f]) : event.attendees[i][f][j] \in {CR, LF}

\* The document structure holds of the batches whose titles, time zones and
\* attendees hold no line break.
SingleLineFieldsStructure ==
    (route = "generateIcsContent" /\ returned.done
        /\ \A i \in 1 .. Len(args.events) : SingleLineText(args.events[i])) =>
        \E lines \in {PhysicalLines(returned.value)} :
            /\ lines[1] = <<"BEGIN:VCALENDAR">>
            /\ lines[Len(lines)] = <<"END:VCALENDAR">>
            /\ ProperBlocks(lines, Len(args.events))


\* Unfolding: every CRLF that a space follows is removed with that space.
Unfold(s) ==
    LET Folded(i) == i + 2 <= Len(s) /\ s[i] = CR /\ s[i + 1] = LF /\ s[i + 2] = " "
        Kept(i) == ~ \E j \in {i - 2, i - 1, i} : j >= 1 /\ Folded(j)
    IN  CHOOSE unfolded \in
            {[k \in 1 .. Len(kept) |-> s[kept[k]]] :
                kept \in {Positions(s, Kept)}} : TRUE

\* Unescaping a TEXT value by the format's rules: \\ is a backslash, \; a
\* semicolon, \, a comma, \n and \N a line feed; a backslash before any other
\* character is no escape and stays.  The text is read from left to right, so
\* in a row of backslashes every second one is escaped by the one before it.
Unescape(s) ==
    LET \* The number of backslashes that stand in a row right before position i.
        RunBefore(i) ==
            CHOOSE k \in 0 .. (i - 1) :
                /\ \A j \in (i - k) .. (i - 1) : s[j] = Backslash
                /\ (i - k - 1 >= 1) => s[i - k - 1] # Backslash
        \* Position i is taken by the backslash that opens an escape before it.
        Escaped(i) == RunBefore(i) % 2 = 1
        Decoded(i) ==
            IF Escaped(i)
            THEN (IF s[i] \in {Backslash, ";", ","} THEN <<s[i]>>
                  ELSE IF s[i] \in {"n", "N"} THEN <<LF>>
                  ELSE <<Backslash, s[i]>>)
            ELSE IF s[i] = Backslash
            THEN (IF i = Len(s) THEN <<Backslash>> ELSE <<>>)
            ELSE <<s[i]>>
    IN  Concat([i \in 1 .. Len(s) |-> Decoded(i)], 1, Len(s))

\* JavaScript's String.prototype.startsWith
StartsWith(s, prefix) == Len(s) >= Len(prefix) /\ SubSeq(s, 1, Len(prefix)) = prefix

\* C22: for any location text over an alphabet that includes comma,
\* semicolon, backslash and newline, unescaping the value of the emitted
\* LOCATION line, after unfolding, yields the original text exactly.
C22_LocationRoundTrip ==
    (route = "locationLine" /\ returned.done) =>
        \E unfolded \in {Unfold(returned.value.locationLine)} :
            /\ StartsWith(unfolded, LocationPrefix)
            /\ Unescape(SubSeq(unfolded, Len(LocationPrefix) + 1, Len(unfolded)))
                  = args.icsLocation

\* A text holding all four special characters, long enough to be folded, has
\* been encoded.
C22_Witness ==
    /\ route = "locationLine" /\ returned.done
    /\ \A c \in {",", ";", Backslash, LF} :
          \E i \in 1 .. Len(args.icsLocation) : args.icsLocation[i] = c
    /\ Len(returned.value.escapedLocation) > Len(args.icsLocation)
    /\ \E i \in 1 .. Len(returned.value.locationLine) :
          returned.value.locationLine[i] = CR

\* C23: a LOCATION line longer than 75 characters is folded into a first
\* line and continuation lines separated by CRLF, each continuation beginning
\* with exactly one added space, every physical line at most 75 characters
\* long, and removing each CRLF with the space after it gives the line back;
\* a line of at most 75 characters is returned unchanged.
C23_FoldLine ==
    (route = "locationLine" /\ returned.done) =>
        \E line \in {LocationPrefix \o returned.value.escapedLocation} :
        \E physical \in {PhysicalLines(returned.value.locationLine)} :
            IF Len(line) <= FirstLineLength
            THEN returned.value.locationLine = line
            ELSE /\ Len(physical) >= 2
                 /\ \A k \in 1 .. Len(physical) : Len(physical[k]) <= FirstLineLength
                 /\ \A k \in 2 .. Len(physical) :
                        Len(physical[k]) >= 2 /\ physical[k][1] = " "
                 /\ Join([k \in 1 .. Len(physical) |->
                            IF k = 1 THEN physical[k] ELSE Tail(physical[k])], <<>>) = line
                 /\ Unfold(returned.value.locationLine) = line

\* A line of more than 149 characters has been folded into three lines or
\* more.
C23_Witness ==
    /\ route = "locationLine" /\ returned.done
    /\ Len(returned.value.escapedLocation) + Len(LocationPrefix)
          > FirstLineLength + ContinuationLength
    /\ Len(PhysicalLines(returned.value.locationLine)) >= 3

\* A line of exactly 75 characters has been returned as it is.
C23_WitnessUnfolded ==
    /\ route = "locationLine" /\ returned.done
    /\ Len(returned.value.escapedLocation) + Len(LocationPrefix) = FirstLineLength
    /\ returned.value.locationLine = LocationPrefix \o returned.value.escapedLocation


\* Line i of the lines is a line of the given property written for the
\* given attendee: the property, the attendee's name as CN, then the given
\* parameters.
WrittenFor(line, property, attendee, parameters) ==
    /\ Len(line) >= Len(attendee.name) + 2
    /\ line[1] = property
    /\ SubSeq(line, 2, Len(attendee.name) + 1) = attendee.name
    /\ \E k \in (Len(attendee.name) + 2) .. Len(line) : line[k] = parameters

\* C24: for every event with a non-empty attendees sequence the document
\* holds exactly one ORGANIZER line, for the first attendee, and exactly one
\* ATTENDEE line per entry (the first included), each carrying the attendee's
\* name, ROLE=REQ-PARTICIPANT and PARTSTAT=NEEDS-ACTION, in the order of the
\* sequence.
C24_OrganizerAndAttendees ==
    (route = "generateIcsContent" /\ returned.done) =>
        \E lines \in {PhysicalLines(returned.value)} :
        \E organizers \in {Positions(lines, LAMBDA i : lines[i] # <<>>
                                        /\ lines[i][1] = "ORGANIZER;CN=\"")} :
        \E attendeeLines \in {Positions(lines, LAMBDA j : lines[j] # <<>>
                                        /\ lines[j][1] = "ATTENDEE;CN=\"")} :
        \E attended \in {SelectSeq(args.events, LAMBDA e : e.attendees # <<>>)} :
        \E everyone \in {Concat([n \in 1 .. Len(attended) |-> attended[n].attendees],
                                1, Len(attended))} :
            /\ Len(organizers) = Len(attended)
            /\ \A k \in 1 .. Len(organizers) :
                  WrittenFor(lines[organizers[k]], "ORGANIZER;CN=\"",
                             attended[k].attendees[1], "\":mailto:")
            /\ Len(attendeeLines) = Len(everyone)
            /\ \A k \in 1 .. Len(attendeeLines) :
                  WrittenFor(lines[attendeeLines[k]], "ATTENDEE;CN=\"", everyone[k],
                      "\";ROLE=REQ-PARTICIPANT;PARTSTAT=NEEDS-ACTION;RSVP=TRUE:mailto:")

\* The same, of the batches in which every attendee has an email address.
AttendeesWithEmailListed ==
    (route = "generateIcsContent" /\ returned.done
        /\ \A i \in 1 .. Len(args.events) : \A j \in 1 .. Len(args.events[i].attendees) :
              args.events[i].attendees[j].email # <<>>
        /\ \A n \in 1 .. Len(args.events) : SingleLineText(args.events[n])) =>
        C24_OrganizerAndAttendees


\* The characters of a text that come from the given origin.
CharsFrom(content, origin) ==
    Length(SelectSeq(content, LAMBDA r : r.origin = origin))

HoldsMarker(content) ==
    \E i \in 1 .. Len(content) :
        content[i].origin = "marker" /\ content[i].len = MarkerLength

\* A part of the input was cut: the dispatched text holds some but not all of
\* the request's text or of its cleaned HTML, or the prepared text was longer
\* than the bound.
PartCut ==
    \/ Length(returned.value.contentForAI) > DispatchLimit
    \/ /\ CharsFrom(returned.value.dispatched, "text") > 0
       /\ CharsFrom(returned.value.dispatched, "text") < Length(args.emailContent)
    \/ /\ CharsFrom(returned.value.dispatched, "html") > 0
       /\ CharsFrom(returned.value.dispatched, "html") < Length(args.htmlContent.cleaned)

\* C25: the text dispatched to the inference service is never longer than
\* 5000 characters plus one truncation marker; a text within the bound is
\* dispatched unchanged; and whenever a part of the input was cut the
\* dispatched text holds the marker.
C25_DispatchBound ==
    (route = "contentForAI" /\ returned.done) =>
        /\ Length(returned.value.dispatched) <= DispatchLimit + MarkerLength
        /\ Length(returned.value.contentForAI) <= DispatchLimit =>
              returned.value.dispatched = returned.value.contentForAI
        /\ (~args.htmlContent.given \/ args.inputType # "rich") /\
              Length(args.emailContent) <= DispatchLimit =>
                 returned.value.dispatched = args.emailContent
        /\ PartCut => HoldsMarker(returned.value.dispatched)

\* Both parts of a rich request were cut at 2500 characters and the text put
\* together from them was cut again at 5000.
C25_Witness ==
    /\ route = "contentForAI" /\ returned.done
    /\ args.inputType = "rich" /\ args.htmlContent.given
    /\ CharsFrom(returned.value.contentForAI, "html") = PartLimit
    /\ CharsFrom(returned.value.contentForAI, "text") = PartLimit
    /\ Length(returned.value.contentForAI) > DispatchLimit
    /\ Length(returned.value.dispatched) = DispatchLimit + MarkerLength

\* A plain text of exactly 5000 characters was dispatched as it is, and one
\* of 5001 was cut.
C25_WitnessPlain ==
    /\ route = "contentForAI" /\ returned.done
    /\ args.inputType = "plain"
    /\ Length(args.emailContent) = DispatchLimit
    /\ returned.value.dispatched = args.emailContent


\* What the handler answers to a request that is alone on the server, given
\* what its awaited call produced.
AnsweredAlone(request, res) ==
    IF ~PromptBuilds(request) THEN ServiceInternalError ELSE ServiceOutcome(request, res)

InferenceFailed == pc = "done" /\ route = "legacy" /\ aiResult.kind = "error"

\* C27 as stated: every inference failure ends the request with exactly one
\* failure outcome and no calendar document; a failure of status 429 yields
\* RateLimited, one of status 400 RequestTooLarge, any other the generic
\* failure.
C27_FailureByStatus ==
    InferenceFailed =>
        /\ responses = 1
        /\ ~outcome.icsContent.present
        /\ outcome = IF aiResult.status = 429 THEN LegacyRateLimited
                     ELSE IF aiResult.status = 400 THEN LegacyTooLarge
                     ELSE LegacyGenericError

\* C27, amended: every inference failure ends the request with exactly one
\* failure outcome and no calendar document; a failure of status 429 whose
\* error code is rate_limit_exceeded yields RateLimited (429), a failure of
\* status 400 whose error type is invalid_request_error yields
\* RequestTooLarge (400), and any other failure, a 429 with another code
\* included, yields the generic failure (500).
C27_FailureByCode ==
    InferenceFailed =>
        /\ responses = 1
        /\ ~outcome.icsContent.present
        /\ outcome.eventData = NoData
        /\ aiResult.status = 429 /\ aiResult.code = "rate_limit_exceeded" =>
              outcome.status = 429 /\ outcome = LegacyRateLimited
        /\ aiResult.status = 400 /\ aiResult.etype = "invalid_request_error" =>
              outcome.status = 400 /\ outcome = LegacyTooLarge
        /\ ~(aiResult.status = 429 /\ aiResult.code = "rate_limit_exceeded")
              /\ ~(aiResult.status = 400 /\ aiResult.etype = "invalid_request_error") =>
              outcome.status = 500 /\ outcome = LegacyGenericError

\* A call that failed with status 429 and the code insufficient_quota was
\* answered with the generic failure.
C27_Witness ==
    /\ InferenceFailed
    /\ aiResult.status = 429 /\ aiResult.code = "insufficient_quota"
    /\ outcome = LegacyGenericError


\* The instant a record's date field names.
InstantOf(dateStr) == NewDate(dateStr).t

\* C29: the year-floor correction preserves the ordering of start and end: a
\* record whose end is after its start before the correction still has its
\* end after its start afterwards (events that span a year boundary and
\* 29 February included).
C29_YearFloorKeepsOrder ==
    route = "corrector" =>
        \A i \in 1 .. Len(runs) :
            (runs[i].complete
                /\ InstantOf(runs[i].afterTime.endDate) > InstantOf(runs[i].afterTime.startDate))
            => InstantOf(runs[i].after.endDate) > InstantOf(runs[i].after.startDate)


\* C28: the corrector's steps run in the stated order: the year-floor
\* correction is applied to the record before the explicit-time cross-check
\* (and both before the warning-only checks), so the record a pass leaves is
\* the explicit-time cross-check applied to the year-corrected record.
C28_YearFloorFirst ==
    route = "corrector" =>
        \A i \in 1 .. Len(runs) :
            runs[i].complete =>
                runs[i].after =
                    CorrectTimeExtraction(CorrectEventYear(runs[i].before, now).eventData,
                                          text).eventData

\* The positions of the notes of a kind in a list of warnings.
NotePositions(warnings, kind) == {i \in 1 .. Len(warnings) : warnings[i].kind = kind}

\* In the warnings of an answered request the year note comes first, the
\* time note next and the validator's warnings after them.
NotesYearThenTime ==
    LegacyAnswered /\ outcome.status = 200 =>
        /\ \A y \in NotePositions(outcome.warnings, "yearCorrected") : y = 1
        /\ \A t \in NotePositions(outcome.warnings, "timeCorrected") :
              t = 1 + Cardinality(NotePositions(outcome.warnings, "yearCorrected"))


\* C30: while a request is in flight the extract button stays disabled under
\* every sequence of input events, so at most one request is in flight at
\* any time and the calendar document the page stores is always that of the
\* most recently started request (no request started before the one whose
\* document is stored is still to be answered).
C30_SingleRequestInFlight ==
    route = "page" =>
        /\ inflight # {} => extractBtnDisabled
        /\ Cardinality(inflight) <= 1
        /\ \A r \in inflight : r > currentIcsContent

\* The stored document is replaced only by that of the most recently started
\* request.
StoredFromLatestRequest ==
    [][currentIcsContent' # currentIcsContent => currentIcsContent' = started']_vars

====
